---- MODULE Spec2Model ----
(***************************************************************************)
(* Rewrite tracker of gix's tree diff (gix/src/object/tree/diff/tracked.rs) *)
(* as a state machine: changes are pushed with try_push_change, then emit   *)
(* sorts the items, pairs Additions with Deletions (find_renames and        *)
(* find_match) and drains what is left to the callback.                     *)
(*                                                                          *)
(* A second part is the diff of two trees that feeds such a tracker: the    *)
(* merge-walk of the sorted entries, the visitor's path buffer and the      *)
(* callback that may continue, cancel or fail (SpecDiff).                   *)
(*                                                                          *)
(* A third part is the pipeline that diffs the trees of adjacent commits     *)
(* (experiments/diffing/src/main.rs): workers that look objects up through  *)
(* a cache of their own and add their counts to one atomic counter.         *)
(*                                                                          *)
(* A fourth part is the parser of pathspecs, Pattern::from_bytes            *)
(* (git-pathspec/src/parse.rs), applied to pathspecs given as bytes.        *)
(*                                                                          *)
(* Indices are 0-based as in the Rust code (usize); At(s, i) reads s[i].    *)
(* Object ids are small naturals ordered like ObjectId, path bytes are      *)
(* small naturals ordered like u8, a location is a sequence of bytes.       *)
(***************************************************************************)
EXTENDS Naturals, Sequences, FiniteSets, Bags, TLC

VARIABLES
    items,          \* State::items: Vec<Item>
    path_backing,   \* State::path_backing: Vec<u8>
    rewrites,       \* State::rewrites: Rewrites {copies, percentage, limit}
    pc,             \* where the caller is: "idle", or inside emit: "find_renames", "drain"
    dest_ofs,       \* find_renames' local dest_ofs
    results,        \* per call of emit, what it returned: "running", "Ok", "Err", "Panic"
    ret,            \* what the last try_push_change returned: None or Some(change)
    calls,          \* every invocation of the callback cb, in order
    accepted,       \* every (change, location) try_push_change took ownership of, in order
    fetched,        \* TRUE once find_match fetched a blob (entered the similarity pass)
    lhs,            \* the tree the diff starts from: its entries, in the order of the format
    rhs,            \* the tree the diff is to obtain: its entries
    tracking,       \* Option<Tracking>: None, Some("FileName") or Some("Path")
    pending,        \* the calls the walk of lhs and rhs has yet to make on the visitor
    path,           \* the visitor's path buffer, from which a change's location is taken
    lens,           \* the lengths of the path buffer to go back to on pop_path_component
    components,     \* the names pushed and not yet popped
    visits,         \* every change given to the callback, with its location, in order
    outcome,        \* of the diff: "idle", "running", "Ok" or "Err" (Error::ForEach)
    commits,        \* do_gitoxide_tree_diff's commits: &[ObjectId]
    computation,    \* the mode: Computation, "SingleThreaded" or "MultiThreaded"
    lru,            \* TRUE if make_find builds the memory-LRU cache, FALSE for the HashMap
    missing,        \* the ids the object database has no object for
    obj_cache,      \* per find closure its obj_cache: the (kind, data) stored under an id
    recent,         \* per memory-LRU obj_cache its ids, the least recently used first
    bufs,           \* per worker its two tree buffers (buf1 and buf2)
    wpc,            \* per worker where it is in the closure run for a pair
    pair,           \* per worker the index of the window it works on
    taken,          \* the indices of the windows handed out so far
    changes,        \* the counter the counts are added to
    finished,       \* what do_gitoxide_tree_diff returned: None, Some of a result
    lookups,        \* per worker every call of find it made, in order
    pathspec,       \* the bytes given to Pattern::from_bytes
    pattern         \* what from_bytes returned: None before the call, then Some of the Result

\* the state of the rewrite tracker
tracker == <<items, path_backing, rewrites, pc, dest_ofs, results, ret, calls, accepted, fetched>>

\* the state of one diff of two trees
walk == <<lhs, rhs, tracking, pending, path, lens, components, visits, outcome>>

\* the state of the pipeline over the commits
pipe == <<commits, computation, lru, missing, obj_cache, recent, bufs, wpc, pair, taken,
          changes, finished, lookups>>

\* the state of one call of Pattern::from_bytes
parser == <<pathspec, pattern>>

\* what the tracker, the diff, the pipeline and the parser each leave alone
outside_tracker == <<walk, pipe, parser>>

outside_walk == <<tracker, pipe, parser>>

outside_pipe == <<tracker, walk, parser>>

outside_parser == <<tracker, walk, pipe>>

vars == <<items, path_backing, rewrites, pc, dest_ofs, results, ret, calls, accepted, fetched,
          lhs, rhs, tracking, pending, path, lens, components, visits, outcome,
          commits, computation, lru, missing, obj_cache, recent, bufs, wpc, pair, taken,
          changes, finished, lookups, pathspec, pattern>>

\* ------------------------------------------------------------------ bounds

\* most items one tracker is given in the general specification
MaxItems == 3
\* most items one tracker is given in the specification of a tree walk
MaxWalkItems == 5
\* most pushes in the specification of try_push_change alone
MaxPushes == 2
\* most calls of emit on one tracker
MaxEmits == 2

\* ------------------------------------------------------------------ values

\* Option<T>: None is the empty sequence, Some(x) the sequence of x alone
None == <<>>

Some(x) == <<x>>

Unwrap(opt) == opt[1]

Ids == {1, 2}

AllModes == {"Tree", "Blob", "BlobExecutable", "Symlink", "Commit"}

\* EntryMode::is_blob, of gix_object, as the data model states it
IsBlob(mode) == mode \in {"Blob", "BlobExecutable", "Symlink"}

\* Change::Addition {entry_mode, oid} and Change::Deletion {entry_mode, oid}
Addition(mode, id) ==
    [kind |-> "Addition", entry_mode |-> mode, oid |-> id,
     previous_entry_mode |-> "-", previous_oid |-> 0]

Deletion(mode, id) ==
    [kind |-> "Deletion", entry_mode |-> mode, oid |-> id,
     previous_entry_mode |-> "-", previous_oid |-> 0]

\* Change::Modification {previous_entry_mode, previous_oid, entry_mode, oid}
Modification(pmode, pid, mode, id) ==
    [kind |-> "Modification", entry_mode |-> mode, oid |-> id,
     previous_entry_mode |-> pmode, previous_oid |-> pid]

\* Change::oid and Change::oid_and_mode: the current side of a Modification
Oid(change) == change.oid

Mode(change) == change.entry_mode

\* the changes of the general specification: blob additions and deletions,
\* which the tracker keeps, one tree change and one modification
Changes ==
    {Addition("Blob", i) : i \in Ids} \cup {Deletion("Blob", i) : i \in Ids}
        \cup {Addition("Tree", 1), Modification("Blob", 1, "Blob", 2)}

\* the changes of the specification of a tree walk: blobs of three ids
WalkIds == {1, 2, 3}

WalkChanges ==
    {Addition("Blob", i) : i \in WalkIds} \cup {Deletion("Blob", i) : i \in WalkIds}

\* the changes of the specification of try_push_change alone: every kind and mode
AllChanges ==
    {Addition(m, 1) : m \in AllModes}
        \cup {Deletion(m, 2) : m \in AllModes}
        \cup {Modification(pm, 1, m, 2) : pm \in {"Blob", "Tree"}, m \in AllModes}

\* locations "a" and "b" as bytes
Locations == {<<1>>, <<2>>}

\* an f32 percentage as the fraction num/den
Frac(num, den) == [num |-> num, den |-> den]

\* Rewrites::percentage: None, below 1.0 (0.5 and 0.75), and 1.0
Percentages == {None, Some(Frac(1, 2)), Some(Frac(3, 4)), Some(Frac(1, 1))}

\* Rewrites::copies: None or Some(Copies {source, percentage})
Copies == [source |-> "FromSetOfChangedFiles", percentage |-> None]

CopiesOptions == {None, Some(Copies)}

\* Rewrites::limit: a limit that two Additions and one Deletion exceed
Limits == {1}

\* the lines of the blob with the given id in the object database
Lines(id) ==
    IF id = 1 THEN <<1, 2>>
    ELSE IF id = 2 THEN <<1, 2, 3>>
    ELSE <<1, 2, 3, 4>>

\* ------------------------------------------------------------------ helpers

At(s, i) == s[i + 1]

Last(s) == s[Len(s)]

Front(s) == SubSeq(s, 1, Len(s) - 1)

Max(a, b) == IF a >= b THEN a ELSE b

\* Item::location: the bytes of the item's range in the backing
Location(item, backing) ==
    SubSeq(backing, item.location.start + 1, item.location.end)

\* no diff of two trees is under way
NoDiff ==
    /\ lhs = <<>>
    /\ rhs = <<>>
    /\ tracking = None
    /\ pending = <<>>
    /\ path = <<>>
    /\ lens = <<>>
    /\ components = <<>>
    /\ visits = <<>>
    /\ outcome = "idle"

\* rayon's workers; the single-threaded computation is worker 1 alone
Workers == {1, 2}

\* no pipeline runs
NoPipeline ==
    /\ commits = <<>>
    /\ computation = "SingleThreaded"
    /\ lru = FALSE
    /\ missing = {}
    /\ obj_cache = [w \in Workers |-> <<>>]
    /\ recent = [w \in Workers |-> <<>>]
    /\ bufs = [w \in Workers |-> <<<<>>, <<>>>>]
    /\ wpc = [w \in Workers |-> "idle"]
    /\ pair = [w \in Workers |-> 0]
    /\ taken = {}
    /\ changes = 0
    /\ finished = None
    /\ lookups = [w \in Workers |-> <<>>]

\* no pathspec is parsed
NoPathspec ==
    /\ pathspec = <<>>
    /\ pattern = None

\* ------------------------------------------------------------------ State::new

Init ==
    /\ items = <<>>
    /\ path_backing = <<>>
    /\ rewrites \in [copies : CopiesOptions, percentage : Percentages, limit : Limits]
    /\ pc = "idle"
    /\ dest_ofs = 0
    /\ results = <<>>
    /\ ret = None
    /\ calls = <<>>
    /\ accepted = <<>>
    /\ fetched = FALSE
    /\ NoDiff
    /\ NoPipeline
    /\ NoPathspec

\* ------------------------------------------------------------------ try_push_change

\* Keep without the arm (None, Change::Modification {..}) => false
KeepAlways(copies, change) == TRUE

\* the match on (self.rewrites.copies, &change)
Keep(copies, change) ==
    IF copies # None THEN TRUE
    ELSE IF change.kind = "Modification" THEN FALSE
    ELSE TRUE

\* a range that counts from the start of the location, not of the backing
PushedRangeFromZero(backing, location) == [start |-> 0, end |-> Len(location)]

\* start..self.path_backing.len(), with start the length before the location
\* was appended
PushedRange(backing, location) ==
    [start |-> Len(backing), end |-> Len(backing) + Len(location)]

\* try_push_change with the location copied to the backing before the change is
\* looked at
TryPushChangeEager(change, location) ==
    /\ pc = "idle"
    /\ results = <<>>
    /\ path_backing' = path_backing \o location
    /\ IF ~IsBlob(Mode(change)) \/ ~Keep(rewrites.copies, change)
       THEN /\ ret' = Some(change)
            /\ UNCHANGED <<items, accepted>>
       ELSE /\ items' = Append(items,
                   [change |-> change,
                    location |-> PushedRange(path_backing, location),
                    emitted |-> FALSE])
            /\ accepted' = Append(accepted, [change |-> change, location |-> location])
            /\ ret' = None
    /\ UNCHANGED <<rewrites, pc, dest_ofs, results, calls, fetched>>
    /\ UNCHANGED outside_tracker

\* the tracker is filled before emit is called (accumulate, then emit); a push
\* that is declined hands the change back and stores nothing
TryPushChange(change, location) ==
    /\ pc = "idle"
    /\ results = <<>>
    /\ IF ~IsBlob(Mode(change)) \/ ~Keep(rewrites.copies, change)
       THEN /\ ret' = Some(change)
            /\ UNCHANGED <<items, path_backing, accepted>>
       ELSE /\ path_backing' = path_backing \o location
            /\ items' = Append(items,
                   [change |-> change,
                    location |-> PushedRange(path_backing, location),
                    emitted |-> FALSE])
            /\ accepted' = Append(accepted, [change |-> change, location |-> location])
            /\ ret' = None
    /\ UNCHANGED <<rewrites, pc, dest_ofs, results, calls, fetched>>
    /\ UNCHANGED outside_tracker

\* ------------------------------------------------------------------ emit: the sort

\* the comparator of emit's sort_by: by oid, then location.start, then location.end
ItemLess(a, b) ==
    \/ Oid(a.change) < Oid(b.change)
    \/ /\ Oid(a.change) = Oid(b.change)
       /\ \/ a.location.start < b.location.start
          \/ /\ a.location.start = b.location.start
             /\ a.location.end < b.location.end

\* x put behind every element that is not greater than it
RECURSIVE Insert(_, _)
Insert(sorted, x) ==
    IF sorted = <<>> THEN <<x>>
    ELSE IF ItemLess(x, Last(sorted))
         THEN Append(Insert(Front(sorted), x), Last(sorted))
         ELSE Append(sorted, x)

\* slice::sort_by, a stable sort
RECURSIVE SortItems(_)
SortItems(s) ==
    IF s = <<>> THEN <<>>
    ELSE Insert(SortItems(Front(s)), Last(s))

\* ------------------------------------------------------------------ find_match

\* needs_exact_match with p > 1.0 in place of p >= 1.0
NeedsExactMatchAbove(percentage) ==
    IF percentage = None THEN TRUE ELSE Unwrap(percentage).num > Unwrap(percentage).den

NeedsExactMatch(percentage) ==
    IF percentage = None THEN TRUE ELSE Unwrap(percentage).num >= Unwrap(percentage).den

\* visit::Kind::can_use_change
CanUseChange(kind, change) ==
    kind = "RenameTarget" /\ change.kind = "Deletion"

Min(S) == CHOOSE x \in S : \A y \in S : x <= y

\* slice::partition_point(|a| a.change.oid() < item_id) on the sorted items
PartitionPoint(its, item_id) ==
    LET notLess == {i \in 0..(Len(its) - 1) : ~(Oid(At(its, i).change) < item_id)}
    IN  IF notLess = {} THEN Len(its) ELSE Min(notLess)

\* the range first_idx..end of the items with the oid of item_id
IdRange(its, item_id) ==
    LET first_idx == PartitionPoint(its, item_id)
        other == {i \in first_idx..(Len(its) - 1) : Oid(At(its, i).change) # item_id}
    IN  [start |-> first_idx, end |-> IF other = {} THEN Len(its) ELSE Min(other)]

\* what find_match returns: tag "Some" with the pair (idx, &Item), the item given
\* by its position pos in the items, or tag "None"; tag "Next" is one pass of the
\* loop ending without a return
NoMatch == [tag |-> "None", idx |-> 0, pos |-> 0]

NextPass == [tag |-> "Next", idx |-> 0, pos |-> 0]

\* the identity pass: the first usable item within the range of the same oid, found
\* by enumerate() over the sub-slice, so that the index returned counts from the
\* start of the range
IdentityPass(its, item_idx, kind) ==
    LET range == IdRange(its, Oid(At(its, item_idx).change))
        hits == {src_idx \in 0..(range.end - range.start - 1) :
                    /\ src_idx + range.start # item_idx
                    /\ ~At(its, src_idx + range.start).emitted
                    /\ CanUseChange(kind, At(its, src_idx + range.start).change)}
    IN  IF range.end <= range.start THEN NoMatch
        ELSE IF hits = {} THEN NextPass
        ELSE [tag |-> "Some", idx |-> Min(hits), pos |-> Min(hits) + range.start]

\* the length of a longest common subsequence of two sequences of lines
RECURSIVE LcsLen(_, _)
LcsLen(a, b) ==
    IF a = <<>> \/ b = <<>> THEN 0
    ELSE IF Last(a) = Last(b)
         THEN 1 + LcsLen(Front(a), Front(b))
         ELSE Max(LcsLen(Front(a), b), LcsLen(a, Front(b)))

\* counts.removals of the line diff: the lines of before outside the alignment
Removals(before, after) == Len(before) - LcsLen(before, after)

\* the comparison with the quotient taken over the lines of the source alone
SimilarEnoughOfBefore(before, after, percentage) ==
    /\ Len(before) > 0
    /\ (Len(before) - Removals(before, after)) * percentage.den
           >= percentage.num * Len(before)

\* similarity >= percentage, with similarity the f32 quotient
\* (before.len() - removals) / max(before.len(), after.len()); 0/0 is NaN, which
\* compares false
SimilarEnough(before, after, percentage) ==
    /\ Max(Len(before), Len(after)) > 0
    /\ (Len(before) - Removals(before, after)) * percentage.den
           >= percentage.num * Max(Len(before), Len(after))

\* the similarity pass: the first usable item that is similar enough
SimilarityPass(its, item_idx, percentage, kind) ==
    LET new == Lines(Oid(At(its, item_idx).change))
        hits == {can_idx \in 0..(Len(its) - 1) :
                    /\ can_idx # item_idx
                    /\ ~At(its, can_idx).emitted
                    /\ CanUseChange(kind, At(its, can_idx).change)
                    /\ SimilarEnough(Lines(Oid(At(its, can_idx).change)), new,
                                     Unwrap(percentage))}
    IN  IF hits = {} THEN NextPass
        ELSE [tag |-> "Some", idx |-> Min(hits), pos |-> Min(hits)]

\* one round of `for similarity in [None, percentage]`
MatchPass(its, item_idx, similarity, percentage, kind) ==
    IF NeedsExactMatch(similarity)
    THEN IdentityPass(its, item_idx, kind)
    ELSE SimilarityPass(its, item_idx, percentage, kind)

\* find_match without the errors of fetching or diffing a blob
FindMatch(its, item_idx, percentage, kind) ==
    LET first == MatchPass(its, item_idx, None, percentage, kind)
    IN  IF first.tag # "Next" THEN first
        ELSE IF percentage = None THEN NoMatch
        ELSE LET second == MatchPass(its, item_idx, percentage, percentage, kind)
             IN  IF second.tag # "Next" THEN second ELSE NoMatch

\* whether find_match gets to the similarity pass, where blobs are fetched and diffed
RunsSimilarity(its, item_idx, percentage, kind) ==
    /\ MatchPass(its, item_idx, None, percentage, kind).tag = "Next"
    /\ percentage # None
    /\ ~NeedsExactMatch(percentage)

\* ------------------------------------------------------------------ emit

Continue == "Continue"

Cancel == "Cancel"

Actions == {Continue, Cancel}

\* visit::Destination {change, location} of an item
Destination(item, backing) ==
    [change |-> item.change, location |-> Location(item, backing)]

\* visit::Source {mode, id, kind, location} of the item find_match refers to
Source(item, backing) ==
    [mode |-> Mode(item.change), id |-> Oid(item.change), kind |-> "RenameTarget",
     location |-> Location(item, backing)]

\* one invocation cb(dest, src) and the action it returned; emit is the number of
\* the emit call it belongs to, phase where in emit it was made, source_emitted
\* the emitted flag, at the time of the invocation, of the item src was taken from
Call(dest, src, source_emitted, action) ==
    [dest |-> dest, source |-> src, source_emitted |-> source_emitted,
     action |-> action, emit |-> Len(results), phase |-> pc]

\* a comparison with Action::Cancel that never holds
CancelledNever(action) == FALSE

\* the comparison of what the callback returned with Action::Cancel
Cancelled(action) == action = Cancel

\* the current call of emit returns r
Return(r) == results' = [results EXCEPT ![Len(results)] = r]

\* emit up to find_renames: self.items.sort_by(..)
Emit ==
    /\ pc = "idle"
    /\ Len(results) < MaxEmits
    /\ items' = SortItems(items)
    /\ pc' = "find_renames"
    /\ dest_ofs' = 0
    /\ results' = Append(results, "running")
    /\ ret' = None
    /\ UNCHANGED <<path_backing, rewrites, calls, accepted, fetched>>
    /\ UNCHANGED outside_tracker

\* the indices, from dest_ofs on, of the Additions not yet emitted
Destinations(its, ofs) ==
    {idx \in ofs..(Len(its) - 1) :
        ~At(its, idx).emitted /\ At(its, idx).change.kind = "Addition"}

\* self.items[dest_idx].emitted = true, and self.items[src_idx].emitted = true with
\* the index find_match returned
MarkEmitted(its, dest_idx, src) ==
    LET dest_marked == [its EXCEPT ![dest_idx + 1].emitted = TRUE]
    IN  IF src.tag = "Some"
        THEN [dest_marked EXCEPT ![src.idx + 1].emitted = TRUE]
        ELSE dest_marked

\* one round of find_renames' loop in which find_match returns Ok
FindRenames(action) ==
    /\ pc = "find_renames"
    /\ Destinations(items, dest_ofs) # {}
    /\ LET dest_idx == Min(Destinations(items, dest_ofs))
           src == FindMatch(items, dest_idx, rewrites.percentage, "RenameTarget")
       IN  /\ items' = MarkEmitted(items, dest_idx, src)
           /\ calls' = Append(calls,
                  Call(Destination(At(items, dest_idx), path_backing),
                       IF src.tag = "Some"
                       THEN Some(Source(At(items, src.pos), path_backing))
                       ELSE None,
                       src.tag = "Some" /\ At(items', src.pos).emitted,
                       action))
           /\ fetched' = (fetched \/
                  RunsSimilarity(items, dest_idx, rewrites.percentage, "RenameTarget"))
           /\ IF Cancelled(action)
              THEN /\ pc' = "idle"
                   /\ Return("Ok")
                   /\ dest_ofs' = 0
              ELSE /\ dest_ofs' = dest_idx + 1
                   /\ UNCHANGED <<pc, results>>
    /\ UNCHANGED <<path_backing, rewrites, ret, accepted>>
    /\ UNCHANGED outside_tracker

\* one round of find_renames' loop in which find_match returns Err: fetching an
\* object or reading the diff algorithm failed in the similarity pass
FindRenamesErr ==
    /\ pc = "find_renames"
    /\ Destinations(items, dest_ofs) # {}
    /\ RunsSimilarity(items, Min(Destinations(items, dest_ofs)), rewrites.percentage,
                      "RenameTarget")
    /\ fetched' = TRUE
    /\ pc' = "idle"
    /\ Return("Err")
    /\ dest_ofs' = 0
    /\ UNCHANGED <<items, path_backing, rewrites, ret, calls, accepted>>
    /\ UNCHANGED outside_tracker

\* find_renames returns Continue: with copies set emit reaches todo!(), otherwise
\* it goes on to drain the items
FindRenamesDone ==
    /\ pc = "find_renames"
    /\ Destinations(items, dest_ofs) = {}
    /\ dest_ofs' = 0
    /\ IF rewrites.copies # None
       THEN pc' = "idle" /\ Return("Panic")
       ELSE pc' = "drain" /\ UNCHANGED results
    /\ UNCHANGED <<items, path_backing, rewrites, ret, calls, accepted, fetched>>
    /\ UNCHANGED outside_tracker

\* the indices of the items the drain's filter lets through
Unemitted(its) == {idx \in 0..(Len(its) - 1) : ~At(its, idx).emitted}

\* one round of `for item in self.items.drain(..).filter(|item| !item.emitted)`:
\* the items up to the next unemitted one are moved out of the vector, the callback
\* gets that one, and on Cancel the drain is dropped, which removes the rest
Drain(action) ==
    /\ pc = "drain"
    /\ Unemitted(items) # {}
    /\ LET idx == Min(Unemitted(items))
       IN  /\ calls' = Append(calls,
                  Call(Destination(At(items, idx), path_backing), None, FALSE, action))
           /\ IF Cancelled(action)
              THEN /\ items' = <<>>
                   /\ pc' = "idle"
                   /\ Return("Ok")
              ELSE /\ items' = SubSeq(items, idx + 2, Len(items))
                   /\ UNCHANGED <<pc, results>>
    /\ UNCHANGED <<path_backing, rewrites, dest_ofs, ret, accepted, fetched>>
    /\ UNCHANGED outside_tracker

\* the drain is exhausted: emit returns Ok(())
DrainDone ==
    /\ pc = "drain"
    /\ Unemitted(items) = {}
    /\ items' = <<>>
    /\ pc' = "idle"
    /\ Return("Ok")
    /\ UNCHANGED <<path_backing, rewrites, dest_ofs, ret, calls, accepted, fetched>>
    /\ UNCHANGED outside_tracker

\* ------------------------------------------------------------------ specifications

EmitSteps ==
    \/ Emit
    \/ \E action \in Actions : FindRenames(action)
    \/ FindRenamesErr
    \/ FindRenamesDone
    \/ \E action \in Actions : Drain(action)
    \/ DrainDone

\* the general specification: any rewrites, up to MaxItems items at either location
Push ==
    \E change \in Changes, location \in Locations :
        Len(items) < MaxItems /\ TryPushChange(change, location)

Next == Push \/ EmitSteps

Spec == Init /\ [][Next]_vars

\* try_push_change alone, with changes of every kind and mode
NextPush ==
    \E change \in AllChanges, location \in Locations :
        Len(items) < MaxPushes /\ TryPushChange(change, location)

SpecPush == Init /\ [][NextPush]_vars

\* the tracker as a tree walk feeds it: without copies, every change at a path of
\* its own, the paths in ascending order
InitWalk == Init /\ rewrites.copies = None

PushWalk ==
    \E change \in WalkChanges :
        Len(items) < MaxWalkItems /\ TryPushChange(change, <<Len(items) + 1>>)

NextWalk == PushWalk \/ EmitSteps

SpecWalk == InitWalk /\ [][NextWalk]_vars

\* the tracker given symbolic links besides blobs
LinkChanges ==
    {Addition(m, 1) : m \in {"Blob", "Symlink"}}
        \cup {Deletion(m, 2) : m \in {"Blob", "Symlink"}}

PushLink ==
    \E change \in LinkChanges, location \in Locations :
        Len(items) < MaxItems /\ TryPushChange(change, location)

NextLink == PushLink \/ EmitSteps

SpecLink == Init /\ [][NextLink]_vars

\* the tracker given paths of different lengths, the empty path among them
PathLocations == {<<>>, <<1>>, <<1, 2>>}

PathChanges == {Addition("Blob", 1), Deletion("Blob", 1), Deletion("Blob", 2)}

PushPaths ==
    \E change \in PathChanges, location \in PathLocations :
        Len(items) < MaxItems /\ TryPushChange(change, location)

NextPaths == PushPaths \/ EmitSteps

SpecPaths == InitWalk /\ [][NextPaths]_vars

\* the tracker given Additions and Deletions of blobs, the candidates of a rename
SimilarChanges ==
    {Addition("Blob", i) : i \in Ids} \cup {Deletion("Blob", i) : i \in Ids}

PushSimilar ==
    \E change \in SimilarChanges, location \in Locations :
        Len(items) < MaxItems /\ TryPushChange(change, location)

NextSimilar == PushSimilar \/ EmitSteps

SpecSimilar == InitWalk /\ [][NextSimilar]_vars

\* ------------------------------------------------------------------ trees

\* filenames "a" and "b" as bytes; no name is a prefix of another, so that the
\* order of the entries' sort keys is the order of their names
Names == {1, 2}

\* the separator '/' of the components of a path
Slash == 47

\* the (mode, id) of the blob entries of a root tree and of a subtree
LeafKinds ==
    {[mode |-> "Blob", id |-> 1], [mode |-> "Blob", id |-> 2],
     [mode |-> "BlobExecutable", id |-> 1]}

SubKinds == {[mode |-> "Blob", id |-> 1], [mode |-> "Blob", id |-> 2]}

Opt(S) == {None} \cup {Some(x) : x \in S}

\* the entries of a tree object given as a map from each name to what, if
\* anything, the tree holds under it: sorted by filename, every filename once
RECURSIVE EntriesFrom(_, _)
EntriesFrom(f, names) ==
    IF names = {} THEN <<>>
    ELSE LET n == Min(names)
         IN  (IF f[n] = None THEN <<>>
              ELSE <<[filename |-> n, mode |-> Unwrap(f[n]).mode, id |-> Unwrap(f[n]).id]>>)
                 \o EntriesFrom(f, names \ {n})

\* the subtrees of the object database: non-empty trees of blobs
SubShapes == {f \in [Names -> Opt(SubKinds)] : \E n \in Names : f[n] # None}

\* the object id of a subtree, one id per content
KindCode(opt) == IF opt = None THEN 0 ELSE Unwrap(opt).id

TreeIdOf(f) == 10 + 3 * KindCode(f[1]) + KindCode(f[2])

TreeIds == {TreeIdOf(f) : f \in SubShapes}

\* the object source's find(id) followed by TreeIter: the entries of the tree id
TreeAt(id) == EntriesFrom(CHOOSE f \in SubShapes : TreeIdOf(f) = id, Names)

\* the root trees: under each name nothing, a blob or a subtree
RootKinds == LeafKinds \cup {[mode |-> "Tree", id |-> t] : t \in TreeIds}

Roots == {EntriesFrom(f, Names) : f \in [Names -> Opt(RootKinds)]}

\* Option<Tracking> of the platform: changes(), track_filename(), track_path()
Trackings == {None, Some("FileName"), Some("Path")}

\* ------------------------------------------------------------------ the walk of two trees

\* the calls on the visitor: push_path_component(name), visit(change) for the
\* entry reached by the names in at, and pop_path_component()
PushStep(name) == [op |-> "push", name |-> name, change |-> None, at |-> <<>>]

VisitStep(change, at) == [op |-> "visit", name |-> 0, change |-> Some(change), at |-> at]

PopStep == [op |-> "pop", name |-> 0, change |-> None, at |-> <<>>]

\* an Addition whichever side the entry is on
ChangeOfAddition(kind, entry) == Addition(entry.mode, entry.id)

\* the change for an entry present on one side only: a Deletion on the left, an
\* Addition on the right
ChangeOf(kind, entry) ==
    IF kind = "Deletion" THEN Deletion(entry.mode, entry.id)
    ELSE Addition(entry.mode, entry.id)

RECURSIVE EntrySteps(_, _, _), Expand(_, _, _)
\* a Deletion (or Addition) for an entry present on one side only; if it is a
\* Tree, its contents follow as Deletions (Additions), depth-first
EntrySteps(kind, entry, at) ==
    <<PushStep(entry.filename),
      VisitStep(ChangeOf(kind, entry), Append(at, entry.filename))>>
        \o (IF entry.mode = "Tree"
            THEN Expand(kind, TreeAt(entry.id), Append(at, entry.filename))
            ELSE <<>>)
        \o <<PopStep>>

Expand(kind, entries, at) ==
    IF entries = <<>> THEN <<>>
    ELSE EntrySteps(kind, Head(entries), at) \o Expand(kind, Tail(entries), at)

\* a short-circuit that takes nothing for equal
PrunedNever(l, r) == FALSE

\* the equality-by-hash short-circuit: the same (mode, id) on both sides
Pruned(l, r) == l.mode = r.mode /\ l.id = r.id

\* a test of the modes that takes no two entries for blobs
BothBlobsNever(l, r) == FALSE

\* neither entry is a Tree
BothBlobs(l, r) == l.mode # "Tree" /\ r.mode # "Tree"

RECURSIVE MergeWalk(_, _, _)
\* two entries of the same filename
EqualNames(l, r, at) ==
    IF Pruned(l, r) THEN <<>>
    ELSE IF l.mode = r.mode
    THEN IF l.mode = "Tree"
         THEN <<PushStep(l.filename)>>
                  \o MergeWalk(TreeAt(l.id), TreeAt(r.id), Append(at, l.filename))
                  \o <<PopStep>>
         ELSE <<PushStep(l.filename),
                VisitStep(Modification(l.mode, l.id, r.mode, r.id), Append(at, l.filename)),
                PopStep>>
    ELSE IF BothBlobs(l, r)
    THEN <<PushStep(l.filename),
           VisitStep(Modification(l.mode, l.id, r.mode, r.id), Append(at, l.filename)),
           PopStep>>
    ELSE EntrySteps("Deletion", l, at) \o EntrySteps("Addition", r, at)

\* the merge-walk over the sorted entries of one frame
MergeWalk(l, r, at) ==
    IF l = <<>> /\ r = <<>> THEN <<>>
    ELSE IF r = <<>> THEN EntrySteps("Deletion", Head(l), at) \o MergeWalk(Tail(l), r, at)
    ELSE IF l = <<>> THEN EntrySteps("Addition", Head(r), at) \o MergeWalk(l, Tail(r), at)
    ELSE IF Head(l).filename < Head(r).filename
    THEN EntrySteps("Deletion", Head(l), at) \o MergeWalk(Tail(l), r, at)
    ELSE IF Head(r).filename < Head(l).filename
    THEN EntrySteps("Addition", Head(r), at) \o MergeWalk(l, Tail(r), at)
    ELSE EqualNames(Head(l), Head(r), at) \o MergeWalk(Tail(l), Tail(r), at)

\* ------------------------------------------------------------------ the visitor

\* what the user's callback returns: Ok(Action) or an error of its own
Failed == "Err"

Outcomes == Actions \cup {Failed}

\* push_path_component that appends the component without the separator
PushedUnseparated(buffer, name) == Append(buffer, name)

\* the buffer of full-path tracking after a component is pushed
Pushed(buffer, name) ==
    IF buffer = <<>> THEN <<name>> ELSE buffer \o <<Slash, name>>

\* the location given with a change
LocationOf(mode, buffer) == IF mode = None THEN <<>> ELSE buffer

\* for_each_to_obtain_tree(other, for_each): the diff of lhs and rhs begins
ForEachToObtainTree ==
    /\ outcome = "idle"
    /\ pending' = MergeWalk(lhs, rhs, <<>>)
    /\ outcome' = "running"
    /\ UNCHANGED <<lhs, rhs, tracking, path, lens, components, visits>>
    /\ UNCHANGED outside_walk

PushPathComponent ==
    /\ outcome = "running"
    /\ pending # <<>>
    /\ Head(pending).op = "push"
    /\ components' = Append(components, Head(pending).name)
    /\ IF tracking = Some("Path")
       THEN /\ lens' = Append(lens, Len(path))
            /\ path' = Pushed(path, Head(pending).name)
       ELSE IF tracking = Some("FileName")
       THEN /\ path' = <<Head(pending).name>>
            /\ UNCHANGED lens
       ELSE UNCHANGED <<path, lens>>
    /\ pending' = Tail(pending)
    /\ UNCHANGED <<lhs, rhs, tracking, visits, outcome>>
    /\ UNCHANGED outside_walk

PopPathComponent ==
    /\ outcome = "running"
    /\ pending # <<>>
    /\ Head(pending).op = "pop"
    /\ components' = Front(components)
    /\ IF tracking = Some("Path")
       THEN /\ path' = SubSeq(path, 1, Last(lens))
            /\ lens' = Front(lens)
       ELSE UNCHANGED <<path, lens>>
    /\ pending' = Tail(pending)
    /\ UNCHANGED <<lhs, rhs, tracking, visits, outcome>>
    /\ UNCHANGED outside_walk

\* a Cancel that is taken for Continue
AbortsNever(result) == FALSE

\* the visitor returned Cancel: the whole diff is aborted
Aborts(result) == result = Cancel

\* a callback error that is taken for Continue
StopsNever(result) == FALSE

\* the callback returned an error: the walk is cancelled and the error kept
Stops(result) == result = Failed

\* visit(change): the callback gets the change and its location; Cancel ends the
\* diff with Ok, an error of the callback ends it with Error::ForEach
Visit(result) ==
    /\ outcome = "running"
    /\ pending # <<>>
    /\ Head(pending).op = "visit"
    /\ visits' = Append(visits,
           [change |-> Unwrap(Head(pending).change),
            location |-> LocationOf(tracking, path),
            at |-> Head(pending).at,
            result |-> result])
    /\ IF Stops(result) THEN outcome' = "Err" /\ UNCHANGED pending
       ELSE IF Aborts(result) THEN outcome' = "Ok" /\ UNCHANGED pending
       ELSE pending' = Tail(pending) /\ UNCHANGED outcome
    /\ UNCHANGED <<lhs, rhs, tracking, path, lens, components>>
    /\ UNCHANGED outside_walk

\* both trees are exhausted: the diff returns Ok(())
DiffDone ==
    /\ outcome = "running"
    /\ pending = <<>>
    /\ outcome' = "Ok"
    /\ UNCHANGED <<lhs, rhs, tracking, pending, path, lens, components, visits>>
    /\ UNCHANGED outside_walk

\* a diff of any two trees with any tracking, the tracker left alone
InitDiff ==
    /\ items = <<>>
    /\ path_backing = <<>>
    /\ rewrites = [copies |-> None, percentage |-> None, limit |-> 1]
    /\ pc = "idle"
    /\ dest_ofs = 0
    /\ results = <<>>
    /\ ret = None
    /\ calls = <<>>
    /\ accepted = <<>>
    /\ fetched = FALSE
    /\ lhs \in Roots
    /\ rhs \in Roots
    /\ tracking \in Trackings
    /\ pending = <<>>
    /\ path = <<>>
    /\ lens = <<>>
    /\ components = <<>>
    /\ visits = <<>>
    /\ outcome = "idle"
    /\ NoPipeline
    /\ NoPathspec

NextDiff ==
    \/ ForEachToObtainTree
    \/ PushPathComponent
    \/ \E result \in Outcomes : Visit(result)
    \/ PopPathComponent
    \/ DiffDone

SpecDiff == InitDiff /\ [][NextDiff]_vars

\* ------------------------------------------------------------------ the object database

\* most commits given to do_gitoxide_tree_diff
MaxCommits == 3
\* most calls of find in the specification of the find closures alone
MaxLookups == 3
\* the bytes a memory-LRU obj_cache may hold
\* (GITOXIDE_CACHED_OBJECT_DATA_PER_THREAD_IN_BYTES)
CacheBytes == 5

\* the commits of the repository and the root trees they refer to
CommitIds == {21, 22}

RootTreeIds == {31, 32}

ObjectIds == CommitIds \cup RootTreeIds

\* git_object::Kind of the object of an id
KindOf(id) == IF id \in CommitIds THEN "Commit" ELSE "Tree"

\* the bytes of the object of an id: a commit holds the id of its root tree, a
\* tree holds for each entry its filename and the id of its blob
DataOf(id) ==
    IF id = 21 THEN <<31>>
    ELSE IF id = 22 THEN <<32>>
    ELSE IF id = 31 THEN <<1, 1, 2, 2>>
    ELSE <<1, 2>>

\* git_odb::data::Object::new(kind, data), and ObjectInfo {kind, data}
Object(kind, data) == [kind |-> kind, data |-> data]

\* the object databases: complete, without a commit, without a root tree
Missings == {{}, {22}, {32}}

\* db.find(oid, buf, pack_cache).ok().flatten(): None for an id the database has
\* no object for and for a find that fails (ok = FALSE)
DbFind(absent, id, ok) ==
    IF ok /\ id \notin absent THEN Some(Object(KindOf(id), DataOf(id))) ELSE None

\* ------------------------------------------------------------------ the find closures

Zeros(n) == [i \in 1..n |-> 0]

\* a buffer left at the length it has
ResizeNever(buf, new_len) == buf

\* Vec::resize(new_len, 0)
Resize(buf, new_len) ==
    IF new_len <= Len(buf) THEN SubSeq(buf, 1, new_len)
    ELSE buf \o Zeros(new_len - Len(buf))

\* obj_cache.insert(oid, info) with the entries the memory-LRU evicts to make room
Inserted(cache, id, info, evict) ==
    [i \in (DOMAIN cache \ evict) \cup {id} |-> IF i = id THEN info ELSE cache[i]]

\* a cache that keeps an entry of no bytes for an object that was not found
AfterMissAlways(cache, id, obj, evict) ==
    Inserted(cache, id, IF obj # None THEN Unwrap(obj) ELSE Object("Tree", <<>>), evict)

\* the cache after a miss: `if let Some(ref obj) = obj { obj_cache.insert(..) }`
AfterMiss(cache, id, obj, evict) ==
    IF obj # None THEN Inserted(cache, id, Unwrap(obj), evict) ELSE cache

\* the bytes resident in a cache for the ids of order
RECURSIVE Resident(_, _)
Resident(cache, order) ==
    IF order = <<>> THEN 0
    ELSE Len(cache[Head(order)].data) + Resident(cache, Tail(order))

\* the ids the memory-LRU keeps so that no more than room bytes stay resident:
\* the least recently used go first
RECURSIVE Kept(_, _, _)
Kept(cache, order, room) ==
    IF order = <<>> \/ Resident(cache, order) <= room THEN order
    ELSE Kept(cache, Tail(order), room)

IdsIn(order) == {order[i] : i \in DOMAIN order}

\* the order of use once id is used
Touched(order, id) == SelectSeq(order, LAMBDA i : i # id) \o <<id>>

\* one call of the closure make_find returns (and of find_with_obj_cache): the
\* cache and the buffer afterwards, what is returned, and whether
\* copy_from_slice panicked over slices of two lengths
CachedFind(cache, order, buf, id, ok) ==
    IF id \in DOMAIN cache
    THEN LET resized == Resize(buf, Len(cache[id].data))
         IN  IF Len(resized) # Len(cache[id].data)
             THEN [hit |-> TRUE, db |-> None, panic |-> TRUE, cache |-> cache,
                   order |-> order, buf |-> resized, obj |-> None]
             ELSE [hit |-> TRUE, db |-> None, panic |-> FALSE, cache |-> cache,
                   order |-> IF lru THEN Touched(order, id) ELSE order,
                   buf |-> cache[id].data,
                   obj |-> Some(Object(cache[id].kind, cache[id].data))]
    ELSE LET obj == DbFind(missing, id, ok)
             kept == IF lru /\ obj # None
                     THEN Kept(cache, order, CacheBytes - Len(Unwrap(obj).data))
                     ELSE order
         IN  [hit |-> FALSE, db |-> Some(obj), panic |-> FALSE,
              cache |-> AfterMiss(cache, id, obj, IdsIn(order) \ IdsIn(kept)),
              order |-> IF lru /\ obj # None THEN kept \o <<id>> ELSE order,
              buf |-> IF obj # None THEN Unwrap(obj).data ELSE buf,
              obj |-> obj]

\* every find closure is the first one made
FirstCache(w) == 1

\* the closure a worker calls: the one its own make_find() returned
OwnCache(w) == w

\* worker w calls find(id, buf) with its buffer b
Find(w, b, id, ok) ==
    LET found == CachedFind(obj_cache[OwnCache(w)], recent[OwnCache(w)], bufs[w][b], id, ok)
    IN  /\ obj_cache' = [obj_cache EXCEPT ![OwnCache(w)] = found.cache]
        /\ recent' = [recent EXCEPT ![OwnCache(w)] = found.order]
        /\ bufs' = [bufs EXCEPT ![w][b] = found.buf]
        /\ lookups' = [lookups EXCEPT ![w] = Append(@,
               [id |-> id, b |-> b, hit |-> found.hit, db |-> found.db,
                panic |-> found.panic, obj |-> found.obj, buf |-> found.buf,
                before |-> obj_cache[OwnCache(w)], after |-> found.cache])]

\* the tracker is not used
NoTracker ==
    /\ items = <<>>
    /\ path_backing = <<>>
    /\ rewrites = [copies |-> None, percentage |-> None, limit |-> 1]
    /\ pc = "idle"
    /\ dest_ofs = 0
    /\ results = <<>>
    /\ ret = None
    /\ calls = <<>>
    /\ accepted = <<>>
    /\ fetched = FALSE

\* the find closures of two workers, called with any id and either buffer
InitFind ==
    /\ NoTracker
    /\ NoDiff
    /\ commits = <<>>
    /\ computation = "MultiThreaded"
    /\ lru \in BOOLEAN
    /\ missing \in Missings
    /\ obj_cache = [w \in Workers |-> <<>>]
    /\ recent = [w \in Workers |-> <<>>]
    /\ bufs = [w \in Workers |-> <<<<>>, <<>>>>]
    /\ wpc = [w \in Workers |-> "idle"]
    /\ pair = [w \in Workers |-> 0]
    /\ taken = {}
    /\ changes = 0
    /\ finished = None
    /\ lookups = [w \in Workers |-> <<>>]
    /\ NoPathspec

NextFind ==
    \E w \in Workers, b \in {1, 2}, id \in ObjectIds, ok \in BOOLEAN :
        /\ Len(lookups[1]) + Len(lookups[2]) < MaxLookups
        /\ Find(w, b, id, ok)
        /\ UNCHANGED <<commits, computation, lru, missing, wpc, pair, taken, changes,
                       finished>>
        /\ UNCHANGED outside_pipe

SpecFind == InitFind /\ [][NextFind]_vars

\* ------------------------------------------------------------------ do_gitoxide_tree_diff

\* the entries a TreeIter yields from the bytes of a tree
RECURSIVE EntriesOf(_)
EntriesOf(data) ==
    IF Len(data) < 2 THEN <<>>
    ELSE <<[filename |-> data[1], mode |-> "Blob", id |-> data[2]]>>
             \o EntriesOf(SubSeq(data, 3, Len(data)))

\* Count: one more for every call of visit
CountOf(steps) == Cardinality({i \in DOMAIN steps : steps[i].op = "visit"})

\* the counter set to the count
Stored(current, count) == count

\* changes.fetch_add(count.0, Relaxed), and changes += count.0
FetchAdd(current, count) == current + count

\* commits.windows(2) and par_windows(2), by the index of the first commit
Windows == 1..(Len(commits) - 1)

\* the workers of the computation
Running == IF computation = "MultiThreaded" THEN Workers ELSE {1}

\* the lists of commits
CommitLists == UNION {[1..n -> CommitIds] : n \in 0..MaxCommits}

InitPipeline ==
    /\ NoTracker
    /\ NoDiff
    /\ commits \in CommitLists
    /\ computation \in {"SingleThreaded", "MultiThreaded"}
    /\ lru \in BOOLEAN
    /\ missing \in Missings
    /\ obj_cache = [w \in Workers |-> <<>>]
    /\ recent = [w \in Workers |-> <<>>]
    /\ bufs = [w \in Workers |-> <<<<>>, <<>>>>]
    /\ wpc = [w \in Workers |-> "idle"]
    /\ pair = [w \in Workers |-> 0]
    /\ taken = {}
    /\ changes = 0
    /\ finished = None
    /\ lookups = [w \in Workers |-> <<>>]
    /\ NoPathspec

\* a worker is given a window: any that is left in the parallel computation, the
\* next one in the sequential one
Take(w, i) ==
    /\ finished = None
    /\ w \in Running
    /\ wpc[w] = "idle"
    /\ i \in Windows \ taken
    /\ computation = "SingleThreaded" => i = Min(Windows \ taken)
    /\ taken' = taken \cup {i}
    /\ pair' = [pair EXCEPT ![w] = i]
    /\ wpc' = [wpc EXCEPT ![w] = "commit_a"]
    /\ UNCHANGED <<commits, computation, lru, missing, obj_cache, recent, bufs, changes, finished,
                   lookups>>
    /\ UNCHANGED outside_pipe

\* where tree_iter_by_commit calls find: for the commit and for its tree, first
\* with buf1 for pair[0], then with buf2 for pair[1]
FindStages == {"commit_a", "tree_a", "commit_b", "tree_b"}

BufferAt(stage) == IF stage \in {"commit_a", "tree_a"} THEN 1 ELSE 2

StageAfter(stage) ==
    IF stage = "commit_a" THEN "tree_a"
    ELSE IF stage = "tree_a" THEN "commit_b"
    ELSE IF stage = "commit_b" THEN "tree_b"
    ELSE "diff"

\* the id looked up: the commit of the window, or the tree id read from the
\* commit in the buffer
IdAt(w, stage) ==
    IF stage = "commit_a" THEN commits[pair[w]]
    ELSE IF stage = "commit_b" THEN commits[pair[w] + 1]
    ELSE bufs[w][BufferAt(stage)][1]

\* the kind into_commit_iter and into_tree_iter ask for
KindAt(stage) == IF stage \in {"commit_a", "commit_b"} THEN "Commit" ELSE "Tree"

\* one find of tree_iter_by_commit; every expect(..) on a None panics
Lookup(w, ok) ==
    /\ finished = None
    /\ wpc[w] \in FindStages
    /\ Find(w, BufferAt(wpc[w]), IdAt(w, wpc[w]), ok)
    /\ wpc' = [wpc EXCEPT ![w] =
           IF Last(lookups'[w]).obj = None
                  \/ Unwrap(Last(lookups'[w]).obj).kind # KindAt(wpc[w])
                  \/ (wpc[w] \in {"commit_a", "commit_b"}
                          /\ Unwrap(Last(lookups'[w]).obj).data = <<>>)
           THEN "panicked"
           ELSE StageAfter(wpc[w])]
    /\ UNCHANGED <<commits, computation, lru, missing, pair, taken, changes, finished>>
    /\ UNCHANGED outside_pipe

\* needed_to_obtain with the Count visitor over the two trees in the buffers,
\* then the count is added to the counter
Diff(w) ==
    /\ finished = None
    /\ wpc[w] = "diff"
    /\ changes' = FetchAdd(changes,
           CountOf(MergeWalk(EntriesOf(bufs[w][1]), EntriesOf(bufs[w][2]), <<>>)))
    /\ wpc' = [wpc EXCEPT ![w] = "idle"]
    /\ UNCHANGED <<commits, computation, lru, missing, obj_cache, recent, bufs, pair, taken,
                   finished, lookups>>
    /\ UNCHANGED outside_pipe

Panicked == \E w \in Workers : wpc[w] = "panicked"

\* what do_gitoxide_tree_diff comes to: Ok(changes), or the panic of a worker
Returned(r) == [tag |-> r, changes |-> IF r = "Ok" THEN changes ELSE 0]

\* the workers are through: a panic of one is resumed in the caller, otherwise
\* the counter is read and returned as Ok
JoinWorkers ==
    /\ finished = None
    /\ \A w \in Workers : wpc[w] \in {"idle", "panicked"}
    /\ Panicked \/ taken = Windows
    /\ finished' = Some(IF Panicked THEN Returned("Panic") ELSE Returned("Ok"))
    /\ UNCHANGED <<commits, computation, lru, missing, obj_cache, recent, bufs, wpc, pair, taken,
                   changes, lookups>>
    /\ UNCHANGED outside_pipe

NextPipeline ==
    \/ \E w \in Workers, i \in 1..MaxCommits : Take(w, i)
    \/ \E w \in Workers, ok \in BOOLEAN : Lookup(w, ok)
    \/ \E w \in Workers : Diff(w)
    \/ JoinWorkers

SpecPipeline == InitPipeline /\ [][NextPipeline]_vars

\* ------------------------------------------------------------------ pathspecs

\* most long keywords in the parentheses of a pathspec
MaxKeywords == 3

\* long keywords as bytes: attribute specifications (two names, a value, a
\* specification of one space and an empty one), the bare attr, a flag, the two
\* search modes, a prefix and a word that is no keyword
KwAttrA == <<"a", "t", "t", "r", ":", "a">>

KwAttrB == <<"a", "t", "t", "r", ":", "b">>

KwAttrValue == <<"a", "t", "t", "r", ":", "a", "=", "b">>

KwAttrSpace == <<"a", "t", "t", "r", ":", " ">>

KwAttrEmpty == <<"a", "t", "t", "r", ":">>

KwAttr == <<"a", "t", "t", "r">>

KwTop == <<"t", "o", "p">>

KwIcase == <<"i", "c", "a", "s", "e">>

KwExclude == <<"e", "x", "c", "l", "u", "d", "e">>

KwLiteral == <<"l", "i", "t", "e", "r", "a", "l">>

KwGlob == <<"g", "l", "o", "b">>

KwPrefix == <<"p", "r", "e", "f", "i", "x", ":">>

KwOther == <<"x">>

Keywords ==
    {KwAttrA, KwAttrB, KwAttrValue, KwAttrSpace, KwAttrEmpty, KwAttr, KwIcase, KwLiteral,
     KwGlob, KwPrefix \o <<"a">>, KwOther}

RECURSIVE Joined(_)
Joined(list) ==
    IF list = <<>> THEN <<>>
    ELSE IF Len(list) = 1 THEN list[1]
    ELSE list[1] \o <<",">> \o Joined(Tail(list))

KeywordLists == UNION {[1..n -> Keywords] : n \in 0..MaxKeywords}

\* pathspecs without long keywords: empty, a path, short keywords, a keyword
\* that is not implemented, parentheses that are not closed
OtherPathspecs ==
    {<<>>, <<"a">>, <<":", "/", "a">>, <<":", "!", ":", "a">>, <<":", "#", "a">>,
     <<":", "/", "(">> \o KwTop \o <<",">> \o KwExclude \o <<")", "a">>,
     <<":", "(">> \o KwIcase}

\* ":(" keywords ")" path, and the others
Pathspecs ==
    {<<":", "(">> \o Joined(list) \o <<")", "a">> : list \in KeywordLists}
        \cup OtherPathspecs

\* ------------------------------------------------------------------ Pattern::from_bytes

\* Ok(value) and Err(error) of a Result
Ok(value) == [tag |-> "Ok", value |-> value]

Err(error) == [tag |-> "Err", value |-> error]

\* &input[from..to]
Slice(bytes, from, to) == SubSeq(bytes, from + 1, to)

StartsWith(bytes, prefix) ==
    Len(bytes) >= Len(prefix) /\ SubSeq(bytes, 1, Len(prefix)) = prefix

\* the index of the first byte b, if any
FindByte(bytes, b) ==
    LET hits == {i \in 0..(Len(bytes) - 1) : At(bytes, i) = b}
    IN  IF hits = {} THEN None ELSE Some(Min(hits))

\* the bytes of a double quote, an apostrophe, a backtick and a backslash
DoubleQuote == "double quote"

Apostrophe == "apostrophe"

Backtick == "backtick"

Backslash == "backslash"

UnimplementedChars ==
    {DoubleQuote, "#", "%", "&", Apostrophe, ",", "-", ";", "<", "=", ">", "@", "_",
     Backtick, "~"}

\* parse_short_keywords: the signature and the cursor behind the short keywords
RECURSIVE ParseShortKeywords(_, _, _)
ParseShortKeywords(bytes, cursor, signature) ==
    IF cursor >= Len(bytes) THEN Ok([signature |-> signature, cursor |-> cursor])
    ELSE IF At(bytes, cursor) = "/"
    THEN ParseShortKeywords(bytes, cursor + 1, signature \cup {"TOP"})
    ELSE IF At(bytes, cursor) \in {"^", "!"}
    THEN ParseShortKeywords(bytes, cursor + 1, signature \cup {"EXCLUDE"})
    ELSE IF At(bytes, cursor) = ":"
    THEN Ok([signature |-> signature, cursor |-> cursor + 1])
    ELSE IF At(bytes, cursor) \in UnimplementedChars
    THEN Err([kind |-> "Unimplemented", at |-> <<At(bytes, cursor)>>])
    ELSE Ok([signature |-> signature, cursor |-> cursor])

\* split_on_non_escaped_char from window i on, with last the start of the
\* keyword that is being read
RECURSIVE SplitFrom(_, _, _, _)
SplitFrom(bytes, split_char, i, last) ==
    IF i + 2 > Len(bytes) THEN <<Slice(bytes, last, Len(bytes))>>
    ELSE IF At(bytes, i) # Backslash /\ At(bytes, i + 1) = split_char
    THEN <<Slice(bytes, last, i + 1)>> \o SplitFrom(bytes, split_char, i + 1, i + 2)
    ELSE SplitFrom(bytes, split_char, i + 1, last)

SplitOnNonEscapedChar(bytes, split_char) == SplitFrom(bytes, split_char, 0, 0)

\* slice::split(|&c| c == b): the pieces between the bytes b
RECURSIVE Split(_, _)
Split(bytes, b) ==
    IF FindByte(bytes, b) = None THEN <<bytes>>
    ELSE <<Slice(bytes, 0, Unwrap(FindByte(bytes, b)))>>
             \o Split(Slice(bytes, Unwrap(FindByte(bytes, b)) + 1, Len(bytes)), b)

\* is_ascii_alphanumeric() || b",-_".contains(..), for the bytes in use
ValueChars == {"a", "b", "c", "e", "x", "0", "1", ",", "-", "_"}

\* the loop over the value of one attribute, from index i on
RECURSIVE UnescapeValue(_, _)
UnescapeValue(attr, i) ==
    IF i >= Len(attr) THEN Ok(<<>>)
    ELSE LET j == IF At(attr, i) = Backslash THEN i + 1 ELSE i
         IN  IF j >= Len(attr) THEN Err([kind |-> "TrailingEscapeCharacter", at |-> <<>>])
             ELSE IF At(attr, j) \in ValueChars
             THEN LET rest == UnescapeValue(attr, j + 1)
                  IN  IF rest.tag = "Err" THEN rest ELSE Ok(<<At(attr, j)>> \o rest.value)
             ELSE Err([kind |-> "InvalidAttributeValue", at |-> <<At(attr, j)>>])

\* the loop `for attr in input.split(|&c| c == b' ')` of unescape_attribute_values
RECURSIVE UnescapeEach(_)
UnescapeEach(attrs) ==
    IF attrs = <<>> THEN Ok(<<>>)
    ELSE LET attr == Head(attrs)
             eq == FindByte(attr, "=")
             one == IF eq = None THEN Ok(attr)
                    ELSE LET value == UnescapeValue(attr, Unwrap(eq) + 1)
                         IN  IF value.tag = "Err" THEN value
                             ELSE Ok(Slice(attr, 0, Unwrap(eq) + 1) \o value.value)
             rest == UnescapeEach(Tail(attrs))
         IN  IF one.tag = "Err" THEN one
             ELSE IF rest.tag = "Err" THEN rest
             ELSE Ok(one.value \o <<" ">> \o rest.value)

UnescapeAttributeValues(bytes) ==
    IF FindByte(bytes, "=") = None THEN Ok(bytes) ELSE UnescapeEach(Split(bytes, " "))

\* git_attributes::parse::Iter collected: the attributes between the spaces, none
\* for a specification of spaces alone; the names in use are letters, which it
\* accepts
AttributesOf(bytes) ==
    SelectSeq(Split(bytes, " "), LAMBDA attr : attr # <<>>)

ParseAttributes(bytes) ==
    IF bytes = <<>> THEN Err([kind |-> "EmptyAttribute", at |-> <<>>])
    ELSE LET unescaped == UnescapeAttributeValues(bytes)
         IN  IF unescaped.tag = "Err" THEN unescaped
             ELSE Ok(AttributesOf(unescaped.value))

\* `if p.attributes.is_empty()`: the attributes of the keyword are taken
AttributesFree(p) == p.attributes = <<>>

\* no search mode is ever in the way of another
IncompatibleNever(p, other) == FALSE

\* `match p.search_mode { SearchMode::PathAwareGlob => return Err(..)` for literal
\* and `SearchMode::Literal => return Err(..)` for glob: the other search mode is
\* the one the pattern has
Incompatible(p, other) == p.search_mode = other

\* the loop over the keywords of parse_long_keywords
RECURSIVE ForKeywords(_, _)
ForKeywords(keywords, p) ==
    IF keywords = <<>> THEN Ok(p)
    ELSE LET keyword == Head(keywords)
             rest == Tail(keywords)
         IN  IF keyword = KwAttr THEN ForKeywords(rest, p)
             ELSE IF keyword = KwTop
             THEN ForKeywords(rest, [p EXCEPT !.signature = @ \cup {"TOP"}])
             ELSE IF keyword = KwIcase
             THEN ForKeywords(rest, [p EXCEPT !.signature = @ \cup {"ICASE"}])
             ELSE IF keyword = KwExclude
             THEN ForKeywords(rest, [p EXCEPT !.signature = @ \cup {"EXCLUDE"}])
             ELSE IF keyword = KwLiteral
             THEN IF Incompatible(p, "PathAwareGlob")
                  THEN Err([kind |-> "IncompatibleSearchModes", at |-> <<>>])
                  ELSE ForKeywords(rest, [p EXCEPT !.search_mode = "Literal"])
             ELSE IF keyword = KwGlob
             THEN IF Incompatible(p, "Literal")
                  THEN Err([kind |-> "IncompatibleSearchModes", at |-> <<>>])
                  ELSE ForKeywords(rest, [p EXCEPT !.search_mode = "PathAwareGlob"])
             ELSE IF StartsWith(keyword, KwAttrEmpty)
             THEN IF AttributesFree(p)
                  THEN LET attributes == ParseAttributes(Slice(keyword, 5, Len(keyword)))
                       IN  IF attributes.tag = "Err" THEN attributes
                           ELSE ForKeywords(rest, [p EXCEPT !.attributes = attributes.value])
                  ELSE Err([kind |-> "MultipleAttributeSpecifications", at |-> <<>>])
             ELSE IF StartsWith(keyword, KwPrefix) THEN ForKeywords(rest, p)
             ELSE Err([kind |-> "InvalidKeyword", at |-> keyword])

\* parse_long_keywords: the pattern and the cursor behind the ')'
ParseLongKeywords(bytes, p, cursor) ==
    LET end == FindByte(bytes, ")")
    IN  IF end = None THEN Err([kind |-> "MissingClosingParenthesis", at |-> <<>>])
        ELSE LET inner == Slice(bytes, cursor, Unwrap(end))
                 parsed == IF inner = <<>> THEN Ok(p)
                           ELSE ForKeywords(SplitOnNonEscapedChar(inner, ","), p)
             IN  IF parsed.tag = "Err" THEN parsed
                 ELSE Ok([p |-> parsed.value, cursor |-> Unwrap(end) + 1])

\* Pattern::from_bytes
FromBytes(bytes) ==
    LET p == [path |-> <<>>, signature |-> {}, search_mode |-> "ShellGlob",
              attributes |-> <<>>]
    IN  IF bytes = <<>> THEN Err([kind |-> "EmptyString", at |-> <<>>])
        ELSE IF bytes[1] # ":" THEN Ok([p EXCEPT !.path = bytes])
        ELSE LET short == ParseShortKeywords(bytes, 1, {})
             IN  IF short.tag = "Err" THEN short
                 ELSE LET signed == [p EXCEPT !.signature = short.value.signature]
                          cursor == short.value.cursor
                      IN  IF cursor < Len(bytes) /\ At(bytes, cursor) = "("
                          THEN LET long == ParseLongKeywords(bytes, signed, cursor + 1)
                               IN  IF long.tag = "Err" THEN long
                                   ELSE Ok([long.value.p EXCEPT !.path =
                                               Slice(bytes, long.value.cursor, Len(bytes))])
                          ELSE Ok([signed EXCEPT !.path = Slice(bytes, cursor, Len(bytes))])

\* any pathspec, not yet parsed
InitParse ==
    /\ NoTracker
    /\ NoDiff
    /\ NoPipeline
    /\ pathspec \in Pathspecs
    /\ pattern = None

\* the call Pattern::from_bytes(pathspec)
Parse ==
    /\ pattern = None
    /\ pattern' = Some(FromBytes(pathspec))
    /\ UNCHANGED pathspec
    /\ UNCHANGED outside_parser

NextParse == Parse

SpecParse == InitParse /\ [][NextParse]_vars

\* ------------------------------------------------------------------ what the callback saw

Range(seq) == {seq[i] : i \in DOMAIN seq}

\* a source as the tracked item it stands for: the Deletion at its location
SourceItem(src) ==
    [change |-> Deletion(src.mode, src.id), location |-> src.location]

\* the (change, location) pairs the i-th invocation of the callback surfaced
SurfacedBy(i) ==
    {calls[i].dest} \cup
        (IF calls[i].source # None THEN {SourceItem(Unwrap(calls[i].source))} ELSE {})

\* how often the n-th emit surfaced x, as a destination or as a source
SurfaceCount(x, n) ==
    Cardinality({i \in DOMAIN calls : calls[i].emit = n /\ calls[i].dest = x})
        + Cardinality({i \in DOMAIN calls :
              /\ calls[i].emit = n
              /\ calls[i].source # None
              /\ SourceItem(Unwrap(calls[i].source)) = x})

\* how often try_push_change took ownership of x
AcceptCount(x) == Cardinality({i \in DOMAIN accepted : accepted[i] = x})

\* the first emit returned Ok and the callback never returned Cancel in it
FirstEmitCompleted ==
    /\ Len(results) >= 1
    /\ results[1] = "Ok"
    /\ \A i \in DOMAIN calls : calls[i].emit = 1 => calls[i].action # Cancel

\* rewrites.percentage is None or at least 1.0
IdentityOnly ==
    \/ rewrites.percentage = None
    \/ Unwrap(rewrites.percentage).num >= Unwrap(rewrites.percentage).den

\* the invocations of the n-th emit that reported a rewrite
Rewrites(n) == {i \in DOMAIN calls : calls[i].emit = n /\ calls[i].source # None}

\* a < b for byte strings, lexicographically
RECURSIVE LexLess(_, _)
LexLess(a, b) ==
    IF b = <<>> THEN FALSE
    ELSE IF a = <<>> THEN TRUE
    ELSE IF a[1] # b[1] THEN a[1] < b[1]
    ELSE LexLess(Tail(a), Tail(b))

\* ------------------------------------------------------------------ claims

\* C1: after emit returned Ok without a Cancel, every item the tracker accepted
\* has been surfaced to the callback exactly once, as a destination, as the source
\* of a rewrite or as a plain change, and nothing else has been surfaced.
C1_EveryAcceptedItemSurfacedOnce ==
    FirstEmitCompleted =>
        \A x \in Range(accepted) \cup UNION {SurfacedBy(i) : i \in DOMAIN calls} :
            SurfaceCount(x, 1) = AcceptCount(x)

\* C2: with copies = None, whenever the callback is invoked with Some(source), the
\* tracked Deletion that source was taken from has its emitted flag set at the
\* time of the invocation.
C2_SourceMarkedEmitted ==
    rewrites.copies = None =>
        \A i \in DOMAIN calls : calls[i].source # None => calls[i].source_emitted

\* C3: when k Deletions and k Additions of the tracked set carry the same object
\* id, emit reports exactly k rewrites of that id, the i-th Addition in item order
\* paired with the i-th Deletion in item order, whatever else is tracked. Stated
\* for identity-only matching, where no similarity match takes part.
C3_StablePairing ==
    (FirstEmitCompleted /\ IdentityOnly) =>
        \A g \in WalkIds :
            LET IsDel(x) == x.change.kind = "Deletion" /\ Oid(x.change) = g
                IsAdd(x) == x.change.kind = "Addition" /\ Oid(x.change) = g
                IsRewrite(c) ==
                    /\ c.emit = 1
                    /\ c.source # None
                    /\ (Oid(c.dest.change) = g \/ Unwrap(c.source).id = g)
                dels == SelectSeq(accepted, IsDel)
                adds == SelectSeq(accepted, IsAdd)
                pairs == SelectSeq(calls, IsRewrite)
            IN  (Len(dels) = Len(adds) /\ Len(dels) >= 1) =>
                    /\ Len(pairs) = Len(dels)
                    /\ \A i \in 1..Len(pairs) :
                           /\ pairs[i].dest = adds[i]
                           /\ SourceItem(Unwrap(pairs[i].source)) = dels[i]

\* C4: for every rewrites.percentage, if the tracked set holds a Deletion and an
\* Addition of the same object id, emit reports at least one rewrite whose source
\* id equals its destination id.
C4_IdentityPairReported ==
    (/\ FirstEmitCompleted
     /\ \E i, j \in DOMAIN accepted :
            /\ accepted[i].change.kind = "Deletion"
            /\ accepted[j].change.kind = "Addition"
            /\ Oid(accepted[i].change) = Oid(accepted[j].change))
        => \E i \in Rewrites(1) : Unwrap(calls[i].source).id = Oid(calls[i].dest.change)

\* C5: of several unemitted Deletions with the object id of an Addition, the source
\* reported for that Addition is the one with the lexicographically smallest path,
\* in whatever order the changes were pushed: right after the invocation no
\* unemitted Deletion of that id has a smaller path than the reported source.
C5_SmallestPathWins ==
    (/\ pc = "find_renames"
     /\ Len(results) = 1
     /\ calls # <<>>
     /\ Last(calls).source # None
     /\ Unwrap(Last(calls).source).id = Oid(Last(calls).dest.change))
        => \A idx \in 0..(Len(items) - 1) :
               (/\ At(items, idx).change.kind = "Deletion"
                /\ Oid(At(items, idx).change) = Unwrap(Last(calls).source).id
                /\ ~At(items, idx).emitted)
                   => ~LexLess(Location(At(items, idx), path_backing),
                               Unwrap(Last(calls).source).location)

\* C6: with rewrites.percentage None or at least 1.0, every rewrite emit reports
\* has a source of the destination's object id, and no blob is ever fetched or
\* diffed.
C6_IdentityOnlyWithoutSimilarity ==
    IdentityOnly =>
        /\ ~fetched
        /\ \A i \in DOMAIN calls :
               calls[i].source # None =>
                   Unwrap(calls[i].source).id = Oid(calls[i].dest.change)

\* a rewrite was reported and an Addition went without a source, at percentage 1.0
C6_Witness ==
    /\ rewrites.percentage = Some(Frac(1, 1))
    /\ \E i \in DOMAIN calls : calls[i].source # None
    /\ \E i \in DOMAIN calls :
           /\ calls[i].phase = "find_renames"
           /\ calls[i].source = None
           /\ \E j \in DOMAIN accepted :
                  /\ accepted[j].change.kind = "Deletion"
                  /\ Oid(accepted[j].change) # Oid(calls[i].dest.change)

\* C7: try_push_change returns None and stores one new item exactly when the
\* change's mode is a blob kind and copies are tracked or the change is no
\* Modification; otherwise it returns Some of the change it was given.
C7_PushTakesOwnership ==
    [][\A change \in AllChanges, location \in Locations :
          TryPushChange(change, location) =>
              IF IsBlob(Mode(change))
                     /\ (rewrites.copies # None \/ change.kind # "Modification")
              THEN /\ ret' = None
                   /\ Len(items') = Len(items) + 1
                   /\ Last(items').change = change
              ELSE /\ ret' = Some(change)
                   /\ items' = items]_vars

\* a symlink was taken, then a blob Modification was handed back without copies
C7_Witness ==
    /\ rewrites.copies = None
    /\ \E i \in DOMAIN items : Mode(items[i].change) = "Symlink"
    /\ ret # None
    /\ Unwrap(ret).kind = "Modification"
    /\ IsBlob(Mode(Unwrap(ret)))

\* C8: once the callback returned Cancel, in the rename phase or in the drain
\* phase, that emit invokes the callback no further and has returned Ok.
C8_CancelStopsEmit ==
    \A i \in DOMAIN calls :
        calls[i].action = Cancel =>
            /\ \A j \in DOMAIN calls : j > i => calls[j].emit # calls[i].emit
            /\ results[calls[i].emit] = "Ok"
            /\ calls[i].emit = Len(results) => pc = "idle"

\* one emit cancelled in the rename phase with Additions left, the next cancelled
\* in the drain phase with items left
C8_Witness ==
    /\ results = <<"Ok", "Ok">>
    /\ \E i, j \in DOMAIN calls :
           /\ calls[i].action = Cancel /\ calls[i].phase = "find_renames"
           /\ calls[j].action = Cancel /\ calls[j].phase = "drain"
    /\ Len(calls) < Len(accepted)

\* C9: when fetching or diffing a blob fails in the similarity pass, the items
\* surfaced before the error are not surfaced again by a later emit on the same
\* tracker.
C9_NotSurfacedAgainAfterError ==
    (Len(results) >= 2 /\ results[1] = "Err") =>
        \A i, j \in DOMAIN calls :
            (calls[i].emit = 1 /\ calls[j].emit = 2) =>
                SurfacedBy(i) \cap SurfacedBy(j) = {}

\* C10: when the tracked Additions times the tracked Deletions exceed
\* rewrites.limit, the similarity pass is skipped: no blob is fetched and every
\* rewrite reported is an identity match.
C10_LimitSkipsSimilarity ==
    LET adds == Cardinality({i \in DOMAIN accepted : accepted[i].change.kind = "Addition"})
        dels == Cardinality({i \in DOMAIN accepted : accepted[i].change.kind = "Deletion"})
    IN  adds * dels > rewrites.limit =>
            /\ ~fetched
            /\ \A i \in DOMAIN calls :
                   calls[i].source # None =>
                       Unwrap(calls[i].source).id = Oid(calls[i].dest.change)

\* C11: a tracked change of mode Symlink is matched by identity only: find_match
\* does not get to the similarity pass for a Symlink destination, and no rewrite
\* found by similarity (source id other than the destination id) has a Symlink
\* source.
C11_SymlinkMatchedByIdentityOnly ==
    /\ (pc = "find_renames" /\ Destinations(items, dest_ofs) # {}) =>
           LET dest_idx == Min(Destinations(items, dest_ofs))
           IN  Mode(At(items, dest_idx).change) = "Symlink" =>
                   ~RunsSimilarity(items, dest_idx, rewrites.percentage, "RenameTarget")
    /\ \A i \in DOMAIN calls :
           (calls[i].source # None
                /\ Unwrap(calls[i].source).id # Oid(calls[i].dest.change))
               => /\ Unwrap(calls[i].source).mode # "Symlink"
                  /\ Mode(calls[i].dest.change) # "Symlink"

\* C12: in the drain phase of emit the unemitted items go to the callback with
\* source None and in the order in which try_push_change was given them: of two
\* invocations of one drain, the earlier one's item was pushed first.
C12_DrainInPushOrder ==
    \A i, j \in DOMAIN calls :
        (/\ i < j
         /\ calls[i].phase = "drain"
         /\ calls[j].phase = "drain"
         /\ calls[i].emit = calls[j].emit)
            => /\ calls[i].source = None
               /\ calls[j].source = None
               /\ \E p, q \in DOMAIN accepted :
                      /\ p < q
                      /\ accepted[p] = calls[i].dest
                      /\ accepted[q] = calls[j].dest

\* C13: with rewrites.copies set, emit goes on after the rename phase to a copy
\* phase and the drain and returns Ok: every call of emit is under way or has
\* returned, with Ok or with the error of a blob fetch, and none has panicked.
C13_CopiesPhaseThenDrainReturnsOk ==
    rewrites.copies # None =>
        \A n \in DOMAIN results : results[n] \in {"running", "Ok", "Err"}

\* ------------------------------------------------------------------ what the visitor saw

\* the diff ran to its end: it returned Ok and the callback never returned Cancel
DiffCompleted == outcome = "Ok" /\ pending = <<>>

\* the leaf set of a tree: every entry that is no Tree, with its path from the
\* root, its mode and its id
RECURSIVE LeafSet(_, _)
LeafSet(entries, at) ==
    IF entries = <<>> THEN {}
    ELSE LET e == Head(entries)
         IN  (IF e.mode = "Tree"
              THEN LeafSet(TreeAt(e.id), Append(at, e.filename))
              ELSE {[path |-> Append(at, e.filename), mode |-> e.mode, id |-> e.id]})
                 \cup LeafSet(Tail(entries), at)

\* one change applied to a set of leaves: a Deletion removes its path, an Addition
\* adds its path, a Modification replaces mode and id at its path
ApplyChange(leaves, v) ==
    LET others == {x \in leaves : x.path # v.at}
    IN  IF v.change.kind = "Deletion" THEN others
        ELSE others \cup {[path |-> v.at, mode |-> Mode(v.change), id |-> Oid(v.change)]}

RECURSIVE ApplyAll(_, _)
ApplyAll(leaves, vs) ==
    IF vs = <<>> THEN leaves
    ELSE ApplyAll(ApplyChange(leaves, Head(vs)), Tail(vs))

\* a change of an entry that is no Tree
IsLeafChange(v) == Mode(v.change) # "Tree"

\* C14 as stated: applying all changes emitted by diff(A, B) to the leaf set of A
\* yields exactly the leaf set of B, with the same mode and id at every path.
C14_ApplyingAllChanges ==
    DiffCompleted => ApplyAll(LeafSet(lhs, <<>>), visits) = LeafSet(rhs, <<>>)

\* C14: applying the changes emitted by diff(A, B) that are not changes of Tree
\* entries to the leaf set of A yields exactly the leaf set of B, with the same
\* mode and id at every path.
C14_ApplyingLeafChanges ==
    DiffCompleted =>
        ApplyAll(LeafSet(lhs, <<>>), SelectSeq(visits, IsLeafChange)) = LeafSet(rhs, <<>>)

\* a diff that ran to its end and reported the Addition of a Tree with its
\* contents, a Deletion and a Modification
C14_Witness ==
    /\ DiffCompleted
    /\ \E i \in DOMAIN visits :
           visits[i].change.kind = "Addition" /\ Mode(visits[i].change) = "Tree"
    /\ \E i \in DOMAIN visits : Len(visits[i].at) = 2
    /\ \E i \in DOMAIN visits : visits[i].change.kind = "Deletion"
    /\ \E i \in DOMAIN visits : visits[i].change.kind = "Modification"

\* a change seen from the other direction: Additions and Deletions swapped, the
\* previous and current fields of a Modification swapped
Swapped(change) ==
    IF change.kind = "Addition" THEN Deletion(change.entry_mode, change.oid)
    ELSE IF change.kind = "Deletion" THEN Addition(change.entry_mode, change.oid)
    ELSE Modification(change.entry_mode, change.oid,
                      change.previous_entry_mode, change.previous_oid)

\* the changes this diff reported, each seen from the other direction, with paths
SwappedVisits ==
    [i \in DOMAIN visits |-> [change |-> Swapped(visits[i].change), at |-> visits[i].at]]

\* the changes a diff of l and r reports when it runs to its end, with paths
Reported(l, r) ==
    LET steps == MergeWalk(l, r, <<>>)
        IsVisit(s) == s.op = "visit"
        seen == SelectSeq(steps, IsVisit)
    IN  [i \in DOMAIN seen |-> [change |-> Unwrap(seen[i].change), at |-> seen[i].at]]

\* some name is a Tree in one of the trees and an entry that is no Tree in the other
RECURSIVE HasTypeChange(_, _)
HasTypeChange(l, r) ==
    \E i \in DOMAIN l, j \in DOMAIN r :
        /\ l[i].filename = r[j].filename
        /\ \/ (l[i].mode = "Tree") # (r[j].mode = "Tree")
           \/ /\ l[i].mode = "Tree"
              /\ r[j].mode = "Tree"
              /\ HasTypeChange(TreeAt(l[i].id), TreeAt(r[j].id))

\* C15 as stated: the event sequence of diff(B, A) equals that of diff(A, B) with
\* Additions and Deletions swapped and each Modification's fields swapped, at the
\* same paths and in the same order.
C15_ReverseIsSwappedSequence ==
    DiffCompleted => SwappedVisits = Reported(rhs, lhs)

\* C15: diff(B, A) reports the changes of diff(A, B) with Additions and Deletions
\* swapped and each Modification's fields swapped, at the same paths and as often;
\* the order is the same too unless some name is a Tree on one side and an entry
\* that is no Tree on the other.
C15_ReverseIsSwappedChanges ==
    DiffCompleted =>
        /\ Len(SwappedVisits) = Len(Reported(rhs, lhs))
        /\ Range(SwappedVisits) = Range(Reported(rhs, lhs))
        /\ ~HasTypeChange(lhs, rhs) => SwappedVisits = Reported(rhs, lhs)

\* a diff that ran to its end over a name that is a Tree on the left and a blob on
\* the right, next to a Modification
C15_Witness ==
    /\ DiffCompleted
    /\ HasTypeChange(lhs, rhs)
    /\ \E i \in DOMAIN lhs : lhs[i].mode = "Tree"
    /\ \E i \in DOMAIN visits : visits[i].change.kind = "Modification"
    /\ SwappedVisits # Reported(rhs, lhs)

\* the Modifications among the changes reported so far
Modifications == {i \in DOMAIN visits : visits[i].change.kind = "Modification"}

\* C16 as stated: every Modification the tree differ emits has previous_id
\* different from id.
C16_ModificationChangesId ==
    \A i \in Modifications : visits[i].change.previous_oid # visits[i].change.oid

\* C16: every Modification the tree differ emits has a previous (mode, id)
\* different from its (mode, id): the id differs or the mode does.
C16_ModificationChangesModeOrId ==
    \A i \in Modifications :
        \/ visits[i].change.previous_oid # visits[i].change.oid
        \/ visits[i].change.previous_entry_mode # visits[i].change.entry_mode

\* a Modification of the mode alone, Blob to BlobExecutable, and one of the id alone
C16_Witness ==
    /\ \E i \in Modifications :
           /\ visits[i].change.previous_oid = visits[i].change.oid
           /\ visits[i].change.previous_entry_mode = "Blob"
           /\ visits[i].change.entry_mode = "BlobExecutable"
    /\ \E i \in Modifications :
           /\ visits[i].change.previous_oid # visits[i].change.oid
           /\ visits[i].change.previous_entry_mode = visits[i].change.entry_mode

\* the pairs of changes reported at one path, the earlier first
SamePath ==
    {p \in (DOMAIN visits) \X (DOMAIN visits) :
        p[1] < p[2] /\ visits[p[1]].at = visits[p[2]].at}

\* C17 as stated: in one diff of two trees no path is the location of more than
\* one emitted change.
C17_NoPathTwice == SamePath = {}

\* C17: in one diff of two trees a path is the location of one emitted change, or
\* of two when its name is a Tree on one side and an entry that is no Tree on the
\* other: then of the Deletion of the left entry and, later, the Addition of the
\* right one, and of nothing else.
C17_NoPathTwiceButTypeChange ==
    /\ \A p \in SamePath :
           /\ visits[p[1]].change.kind = "Deletion"
           /\ visits[p[2]].change.kind = "Addition"
           /\ (Mode(visits[p[1]].change) = "Tree") # (Mode(visits[p[2]].change) = "Tree")
    /\ \A p, q \in SamePath : visits[p[1]].at = visits[q[1]].at => p = q

\* a Tree replaced by a blob of the same name: its Deletion, the Deletion of its
\* contents and the Addition of the blob at the Tree's path
C17_Witness ==
    /\ DiffCompleted
    /\ \E p \in SamePath :
           /\ Mode(visits[p[1]].change) = "Tree"
           /\ p[2] > p[1] + 1
    /\ \E i \in DOMAIN visits : visits[i].change.kind = "Modification"

\* the visit calls still to come after the one at the head of pending
LaterVisits == {k \in 2..Len(pending) : pending[k].op = "visit"}

\* C18: if the visitor returns Cancel on its n-th visit call, the tree differ
\* makes no further visit call (n changes have been seen), pushes and pops no
\* further path component, so descends into no further subtree, and returns Ok.
C18_CancelStopsDiff ==
    \A n \in DOMAIN visits :
        visits[n].result = Cancel =>
            /\ Len(visits) = n
            /\ outcome = "Ok"
            /\ pending # <<>>
            /\ Head(pending).op = "visit"
            /\ components = visits[n].at

\* Cancel on the second visit, with a subtree yet to be entered
C18_Witness ==
    /\ Len(visits) = 2
    /\ visits[2].result = Cancel
    /\ \E k \in LaterVisits : Len(pending[k].at) = 2

\* the components of a path joined by '/'
RECURSIVE Join(_)
Join(at) ==
    IF at = <<>> THEN <<>>
    ELSE IF Len(at) = 1 THEN at
    ELSE Join(Front(at)) \o <<Slash, Last(at)>>

\* the location of the entry reached by the names in at, under a tracking mode
ExpectedLocation(mode, at) ==
    IF mode = None THEN <<>>
    ELSE IF mode = Some("FileName") THEN <<Last(at)>>
    ELSE Join(at)

\* C19: the location given with each change depends on the tracking mode and the
\* entry's position alone: empty without tracking, the entry's final component
\* with filename tracking, the '/'-joined names from the root of the diff to the
\* entry with path tracking; and the path buffer holds the joined names of the
\* components pushed and not yet popped, each saved length being the buffer's
\* length before the matching push, to which pop_path_component returns it.
C19_LocationByTrackingAndPosition ==
    /\ \A i \in DOMAIN visits :
           visits[i].location = ExpectedLocation(tracking, visits[i].at)
    /\ tracking = Some("Path") =>
           /\ path = Join(components)
           /\ Len(lens) = Len(components)
           /\ \A k \in DOMAIN lens : lens[k] = Len(Join(SubSeq(components, 1, k - 1)))
    /\ tracking = None => path = <<>>

\* with path tracking: a change inside a subtree, then, the subtree's component
\* popped, a change at the root, and the buffer empty again at the end
C19_Witness ==
    /\ DiffCompleted
    /\ tracking = Some("Path")
    /\ path = <<>>
    /\ \E i, j \in DOMAIN visits :
           /\ i < j
           /\ Len(visits[i].at) = 2
           /\ Len(visits[i].location) = 3
           /\ Len(visits[j].at) = 1
           /\ Len(visits[j].location) = 1

\* C20: when the callback returns an error for a change, the diff stops, no
\* further change is given to the callback, and the diff returns the error that
\* wraps the callback's (Error::ForEach) instead of Ok; it returns that error in
\* no other case.
C20_CallbackErrorStopsDiff ==
    /\ \A n \in DOMAIN visits :
           visits[n].result = Failed =>
               /\ Len(visits) = n
               /\ outcome = "Err"
               /\ components = visits[n].at
    /\ outcome = "Err" => (visits # <<>> /\ Last(visits).result = Failed)

\* the callback failed on its second change, with changes yet to be reported
C20_Witness ==
    /\ Len(visits) = 2
    /\ visits[2].result = Failed
    /\ outcome = "Err"
    /\ LaterVisits # {}

\* ------------------------------------------------------------------ the path backing

\* the locations of the first n accepted pushes, one after the other
RECURSIVE Appended(_)
Appended(n) ==
    IF n = 0 THEN <<>> ELSE Appended(n - 1) \o accepted[n].location

\* the item is what the k-th accepted push stored: its range starts where the
\* backing ended before that push and ends where it ended after it, and reading
\* the range gives the location pushed
StoredBy(item, k) ==
    /\ item.change = accepted[k].change
    /\ item.location.start = Len(Appended(k - 1))
    /\ item.location.end = Len(Appended(k))
    /\ Location(item, path_backing) = accepted[k].location

\* C24: path_backing is the locations of the accepted pushes appended in order;
\* each item's range is [length before its push, length after it), lies within
\* path_backing, overlaps no other item's range and reads the path bytes the item
\* was pushed with, in the push phase and, whatever the sort did to the order of
\* the items, until emit completes.
C24_PathBackingAppendOnly ==
    /\ path_backing = Appended(Len(accepted))
    /\ results = <<>> =>
           /\ Len(items) = Len(accepted)
           /\ \A k \in DOMAIN items : StoredBy(items[k], k)
    /\ \A i \in DOMAIN items :
           /\ items[i].location.start <= items[i].location.end
           /\ items[i].location.end <= Len(path_backing)
           /\ \E k \in DOMAIN accepted : StoredBy(items[i], k)
    /\ \A i, j \in DOMAIN items :
           i # j => \/ items[i].location.end <= items[j].location.start
                    \/ items[j].location.end <= items[i].location.start

\* in the drain of an emit whose sort moved an item pushed later, with a longer
\* path, in front of one pushed earlier
C24_Witness ==
    /\ pc = "drain"
    /\ \E i, j \in DOMAIN items :
           /\ i < j
           /\ items[i].location.start > items[j].location.start
           /\ items[i].location.end - items[i].location.start = 2
           /\ items[j].location.end - items[j].location.start = 1

\* ------------------------------------------------------------------ the emitted flag

\* the tracked item as the callback sees it
Surfaced(item) == [change |-> item.change, location |-> Location(item, path_backing)]

\* how many of the items that equal x have the emitted flag set
EmittedCount(x) ==
    Cardinality({i \in DOMAIN items : items[i].emitted /\ Surfaced(items[i]) = x})

\* how often any emit surfaced x, as a destination or as a source
SurfacedEver(x) ==
    Cardinality({i \in DOMAIN calls : calls[i].dest = x})
        + Cardinality({i \in DOMAIN calls :
              calls[i].source # None /\ SourceItem(Unwrap(calls[i].source)) = x})

\* C25: an item's emitted flag is set only when the item is surfaced to the
\* callback, as the destination or the source of a rewrite or as a plain change:
\* the items with the flag set have all been surfaced. (That the flag never goes
\* back to false and that a flagged item is passed over by find_match and
\* find_renames are the other parts of the claim.)
C25_EmittedOnlyWhenSurfaced ==
    \A i \in DOMAIN items :
        items[i].emitted =>
            EmittedCount(Surfaced(items[i])) <= SurfacedEver(Surfaced(items[i]))

\* ------------------------------------------------------------------ the similarity pass

\* the percentage is set and below 1.0
SetBelowOne(percentage) ==
    percentage # None /\ Unwrap(percentage).num < Unwrap(percentage).den

\* the sources the identity pass may take for the destination at dest_idx
IdentityEligible(dest_idx) ==
    {i \in 0..(Len(items) - 1) :
        /\ i # dest_idx
        /\ ~At(items, i).emitted
        /\ At(items, i).change.kind = "Deletion"
        /\ Oid(At(items, i).change) = Oid(At(items, dest_idx).change)}

\* (source lines - removals) / max(source lines, destination lines) >= num/den
ReachesThreshold(src, dst, p) ==
    (Len(src) - Removals(src, dst)) * p.den >= p.num * Max(Len(src), Len(dst))

\* the sources the similarity pass may take for the destination at dest_idx
SimilarityEligible(dest_idx, p) ==
    {i \in 0..(Len(items) - 1) :
        /\ i # dest_idx
        /\ ~At(items, i).emitted
        /\ At(items, i).change.kind = "Deletion"
        /\ ReachesThreshold(Lines(Oid(At(items, i).change)),
                            Lines(Oid(At(items, dest_idx).change)), p)}

\* C26: in every round of find_renames the similarity pass of find_match runs
\* exactly when the percentage is set below 1.0 and the identity pass found no
\* eligible source; then the source given to the callback is the first item in
\* sorted order that is not the destination, is unemitted, is a Deletion and has
\* (source lines - removals) / max(source lines, destination lines) >= percentage,
\* and there is no source when no item reaches the threshold.
C26_SimilarityPassFirstAboveThreshold ==
    [][\A action \in Actions :
          FindRenames(action) =>
              LET dest_idx == Min(Destinations(items, dest_ofs))
                  p == rewrites.percentage
                  runs == SetBelowOne(p) /\ IdentityEligible(dest_idx) = {}
                  hits == SimilarityEligible(dest_idx, Unwrap(p))
              IN  /\ RunsSimilarity(items, dest_idx, p, "RenameTarget") <=> runs
                  /\ runs =>
                       Last(calls').source =
                           IF hits = {} THEN None
                           ELSE Some(Source(At(items, Min(hits)), path_backing))]_vars

\* find_renames paired an Addition with the Deletion of another object, which the
\* similarity pass found
C26_Witness ==
    /\ SetBelowOne(rewrites.percentage)
    /\ \E i \in DOMAIN calls :
          /\ calls[i].phase = "find_renames"
          /\ calls[i].source # None
          /\ Unwrap(calls[i].source).id # Oid(calls[i].dest.change)

\* ------------------------------------------------------------------ a declined push

\* C29: when try_push_change declines a change, returning Some, the items with
\* their emitted flags and the path backing are what they were before the call,
\* and the change returned is the very change that was passed in.
C29_DeclinedPushChangesNothing ==
    [][\A change \in AllChanges, location \in Locations :
          TryPushChange(change, location) /\ ret' # None =>
              /\ items' = items
              /\ path_backing' = path_backing
              /\ ret' = Some(change)]_vars

\* a change that is no blob was handed back by a tracker that holds an item
C29_Witness ==
    /\ items # <<>>
    /\ path_backing # <<>>
    /\ ret # None
    /\ ~IsBlob(Mode(Unwrap(ret)))

\* ------------------------------------------------------------------ the pipeline's total

\* the number of changes between the root trees of the two commits of window i,
\* as the object database holds them
WindowCount(i) ==
    CountOf(MergeWalk(EntriesOf(DataOf(DataOf(commits[i])[1])),
                      EntriesOf(DataOf(DataOf(commits[i + 1])[1])), <<>>))

RECURSIVE SumCounts(_)
SumCounts(S) ==
    IF S = {} THEN 0
    ELSE LET i == CHOOSE i \in S : TRUE
         IN  WindowCount(i) + SumCounts(S \ {i})

\* the windows a worker has begun and not completed
InProgress == {pair[w] : w \in {v \in Workers : wpc[v] # "idle"}}

\* C21: whatever the interleaving of the workers, the counter holds the sum of the
\* change counts of the windows completed so far, no increment lost, and the
\* total do_gitoxide_tree_diff returns is the sum over all windows, in the
\* MultiThreaded computation as in the SingleThreaded one.
C21_TotalIsSumOfPairCounts ==
    /\ changes = SumCounts(taken \ InProgress)
    /\ finished # None /\ Unwrap(finished).tag = "Ok" =>
           Unwrap(finished).changes = SumCounts(Windows)

\* two workers each diffed a window with changes and the total was returned
C21_Witness ==
    /\ computation = "MultiThreaded"
    /\ finished = Some([tag |-> "Ok", changes |-> 4])
    /\ \A w \in Workers : lookups[w] # <<>>

\* ------------------------------------------------------------------ the cached find

\* C22: a find through the cache returns what the object database holds: on a hit
\* the buffer is resized to the length of the cached bytes and holds them, and
\* the object returned has the cached kind and these bytes; on a miss the result
\* of the database is returned and, if it is Some, stored under the id.
C22_CachedFindAsTheStore ==
    \A w \in Workers : \A i \in DOMAIN lookups[w] :
        LET r == lookups[w][i]
        IN  IF r.hit
            THEN /\ ~r.panic
                 /\ Len(r.buf) = Len(r.before[r.id].data)
                 /\ r.buf = r.before[r.id].data
                 /\ r.obj = Some(Object(r.before[r.id].kind, r.buf))
                 /\ r.obj = DbFind(missing, r.id, TRUE)
            ELSE /\ r.obj = Unwrap(r.db)
                 /\ r.obj # None =>
                        r.id \in DOMAIN r.after /\ r.after[r.id] = Unwrap(r.obj)

\* a hit on a tree in a buffer that held an object of another length before
C22_Witness ==
    \E w \in Workers : \E i, j \in DOMAIN lookups[w] :
        /\ i < j
        /\ lookups[w][j].hit
        /\ lookups[w][j].obj # None
        /\ lookups[w][i].b = lookups[w][j].b
        /\ \A k \in (i + 1)..(j - 1) : lookups[w][k].b # lookups[w][j].b
        /\ Len(lookups[w][i].buf) > Len(lookups[w][j].buf)

\* ------------------------------------------------------------------ a missing object

\* C23: when the object source returns None for the id of a commit or of its
\* root tree, do_gitoxide_tree_diff returns an error, in both computations,
\* instead of aborting.
C23_MissingObjectIsAnError ==
    (/\ finished # None
     /\ \E w \in Workers : \E i \in DOMAIN lookups[w] :
            ~lookups[w][i].hit /\ lookups[w][i].obj = None)
        => Unwrap(finished).tag = "Err"

\* ------------------------------------------------------------------ what the workers share

\* every hit of a worker is on an object this worker stored before
HitsAreOwn ==
    \A w \in Workers : \A j \in DOMAIN lookups[w] :
        lookups[w][j].hit =>
            \E i \in 1..(j - 1) :
                /\ lookups[w][i].id = lookups[w][j].id
                /\ ~lookups[w][i].hit
                /\ lookups[w][i].obj # None

\* C27: in the MultiThreaded computation every worker has buffers and an object
\* cache of its own: a step of one worker leaves the buffers, the cache and the
\* finds of every other worker as they are, the counter being all that more than
\* one worker writes, and an object stored in one worker's cache is never found
\* through the cache of another.
C27_WorkersShareOnlyTheCounter ==
    [][/\ \A w \in Workers :
              wpc'[w] # wpc[w] =>
                  \A v \in Workers \ {w} :
                      /\ obj_cache'[v] = obj_cache[v]
                      /\ recent'[v] = recent[v]
                      /\ bufs'[v] = bufs[v]
                      /\ lookups'[v] = lookups[v]
                      /\ wpc'[v] = wpc[v]
                      /\ pair'[v] = pair[v]
       /\ HitsAreOwn']_vars

\* both workers fetched the same commit from the database, each into its own
\* cache, one of them after the other had added its count
C27_Witness ==
    /\ computation = "MultiThreaded"
    /\ changes > 0
    /\ \E id \in CommitIds :
          /\ \A w \in Workers :
                /\ id \in DOMAIN obj_cache[w]
                /\ \E i \in DOMAIN lookups[w] :
                      lookups[w][i].id = id /\ ~lookups[w][i].hit
          /\ \E w \in Workers : wpc[w] \in FindStages

\* ------------------------------------------------------------------ a lookup that finds nothing

\* C28: a lookup for which the database fails or has no object returns None and
\* leaves the cache as it was, without an entry for the id, so that the next
\* lookup of this id asks the database again.
C28_NothingCachedForNone ==
    \A w \in Workers : \A i \in DOMAIN lookups[w] :
        LET r == lookups[w][i]
        IN  (~r.hit /\ Unwrap(r.db) = None) =>
                /\ r.obj = None
                /\ r.after = r.before
                /\ r.id \notin DOMAIN r.after
                /\ \A j \in DOMAIN lookups[w] :
                       (/\ j > i
                        /\ lookups[w][j].id = r.id
                        /\ \A k \in (i + 1)..(j - 1) : lookups[w][k].id # r.id)
                           => ~lookups[w][j].hit /\ lookups[w][j].db # None

\* a find that failed was followed by a find of the same id that got the object
\* from the database, with another object in the cache throughout
C28_Witness ==
    \E w \in Workers : \E i, j \in DOMAIN lookups[w] :
        /\ i < j
        /\ ~lookups[w][i].hit
        /\ lookups[w][i].obj = None
        /\ lookups[w][i].before # <<>>
        /\ lookups[w][j].id = lookups[w][i].id
        /\ lookups[w][j].obj # None

\* ------------------------------------------------------------------ attribute specifications

\* the long keywords of a pathspec that begins with ":(" and has a ")"
LongKeywords(bytes) ==
    IF StartsWith(bytes, <<":", "(">>) /\ FindByte(bytes, ")") # None
           /\ Unwrap(FindByte(bytes, ")")) > 2
    THEN SplitOnNonEscapedChar(Slice(bytes, 2, Unwrap(FindByte(bytes, ")"))), ",")
    ELSE <<>>

\* where in the keywords the attribute specifications are
AttrSpecs(keywords) == {i \in DOMAIN keywords : StartsWith(keywords[i], KwAttrEmpty)}

\* the second attribute specification
SecondAttrSpec(keywords) ==
    Min(AttrSpecs(keywords) \ {Min(AttrSpecs(keywords))})

\* the keywords in front of the second attribute specification are accepted
AcceptedUpToSecond(keywords) ==
    ForKeywords(SubSeq(keywords, 1, SecondAttrSpec(keywords) - 1),
                [path |-> <<>>, signature |-> {}, search_mode |-> "ShellGlob",
                 attributes |-> <<>>]).tag = "Ok"

\* C30: Pattern::from_bytes returns MultipleAttributeSpecifications for every
\* pathspec whose long keywords hold two or more attribute specifications (attr:),
\* whatever attributes the first of them parsed to, the keywords in front of the
\* second one being accepted.
C30_SecondAttrSpecRefused ==
    (/\ pattern # None
     /\ Cardinality(AttrSpecs(LongKeywords(pathspec))) >= 2
     /\ AcceptedUpToSecond(LongKeywords(pathspec)))
        => Unwrap(pattern) = Err([kind |-> "MultipleAttributeSpecifications", at |-> <<>>])

\* ------------------------------------------------------------------ search modes

\* where in the keywords the keyword is
Occurrences(keywords, keyword) == {i \in DOMAIN keywords : keywords[i] = keyword}

\* 'literal' and 'glob' are both among the keywords
BothSearchModes(keywords) ==
    /\ Occurrences(keywords, KwLiteral) # {}
    /\ Occurrences(keywords, KwGlob) # {}

\* the first keyword in front of which the other search mode has occurred
SecondSearchMode(keywords) ==
    Max(Min(Occurrences(keywords, KwLiteral)), Min(Occurrences(keywords, KwGlob)))

\* the keywords in front of that one are accepted
AcceptedUpToSecondMode(keywords) ==
    ForKeywords(SubSeq(keywords, 1, SecondSearchMode(keywords) - 1),
                [path |-> <<>>, signature |-> {}, search_mode |-> "ShellGlob",
                 attributes |-> <<>>]).tag = "Ok"

\* the search mode the keywords ask for
SearchModeOf(keywords) ==
    IF Occurrences(keywords, KwLiteral) # {} THEN "Literal"
    ELSE IF Occurrences(keywords, KwGlob) # {} THEN "PathAwareGlob"
    ELSE "ShellGlob"

\* C31 as stated: Pattern::from_bytes returns IncompatibleSearchModes whenever the
\* long keywords hold both 'literal' and 'glob', in either order and with any other
\* keywords between them, and the search mode of an Ok is Literal if 'literal'
\* occurred, PathAwareGlob if 'glob' occurred and ShellGlob otherwise.
C31_BothSearchModesRefused ==
    pattern # None =>
        /\ BothSearchModes(LongKeywords(pathspec))
               => Unwrap(pattern) = Err([kind |-> "IncompatibleSearchModes", at |-> <<>>])
        /\ Unwrap(pattern).tag = "Ok"
               => Unwrap(pattern).value.search_mode = SearchModeOf(LongKeywords(pathspec))

\* C31: Pattern::from_bytes never returns Ok when the long keywords hold both
\* 'literal' and 'glob'; it returns IncompatibleSearchModes when the keywords in
\* front of the second of the two search modes are accepted, and the error of the
\* first keyword that is refused otherwise. The search mode of an Ok is Literal if
\* 'literal' occurred, PathAwareGlob if 'glob' occurred and ShellGlob otherwise.
C31_BothSearchModesRefusedUnlessEarlierError ==
    pattern # None =>
        /\ BothSearchModes(LongKeywords(pathspec))
               => /\ Unwrap(pattern).tag = "Err"
                  /\ AcceptedUpToSecondMode(LongKeywords(pathspec))
                         <=> Unwrap(pattern).value.kind = "IncompatibleSearchModes"
        /\ Unwrap(pattern).tag = "Ok"
               => Unwrap(pattern).value.search_mode = SearchModeOf(LongKeywords(pathspec))

\* 'glob', an accepted keyword and 'literal' were refused as incompatible
C31_Witness ==
    /\ pattern = Some(Err([kind |-> "IncompatibleSearchModes", at |-> <<>>]))
    /\ LongKeywords(pathspec) = <<KwGlob, KwIcase, KwLiteral>>

====
